---- MODULE Spec2Model ----
(***************************************************************************)
(* A model of the Vulkan device layer of kengine:                          *)
(*   - the command-buffer tracker  (renderer/vulkan/vulkan_command_buffer.c)*)
(*   - the render pass controller  (renderer/vulkan/vulkan_renderpass.h)   *)
(*   - the capability prober and the device selector                       *)
(*                                  (renderer/vulkan/vulkan_device.c)      *)
(*   - the swapchain manager       (renderer/vulkan/vulkan_swapchain.c)    *)
(*   - initialization              (renderer/vulkan/vulkan_backend.c)      *)
(* Driver calls are modelled by their effect on the driver-side objects    *)
(* and by a result code the driver chooses.                                *)
(***************************************************************************)
EXTENDS Integers, Naturals, Sequences, FiniteSets, TLC

\* ------------------------------------------------------------------------
\* Bounds of the model
\* ------------------------------------------------------------------------
\* command-buffer handles the driver's pool can hand out: 1..MaxHandle
MaxHandle == 2
\* surface formats and present modes an accelerator reports: 0..MaxFormats
MaxFormats == 1
MaxModes == 1
\* queue families of an accelerator: 0..MaxFamilies
MaxFamilies == 2
\* accelerators an enumeration reports: 0..MaxDevices
MaxDevices == 2
\* rounds of Begin, End, MarkSubmitted, Reset that are counted: 0..MaxCycles
MaxCycles == 2
\* widths and heights of the surface limits: 1..MaxDim; a request: 0..MaxDim + 1
MaxDim == 2
\* image counts the surface reports: up to MaxImages
MaxImages == 2
\* swapchains the driver can hold at a time: handles 1..MaxSwapchains
MaxSwapchains == 2
\* the platform's absolute time, in ticks: 0..MaxTime
MaxTime == 4

\* ------------------------------------------------------------------------
\* vulkan_types.inl
\* ------------------------------------------------------------------------
VK_NULL_HANDLE == 0

COMMAND_BUFFER_STATE_READY == "READY"
COMMAND_BUFFER_STATE_RECORDING == "RECORDING"
COMMAND_BUFFER_STATE_SUBMITTED == "SUBMITTED"
COMMAND_BUFFER_STATE_NOT_ALLOCATED == "NOT_ALLOCATED"
COMMAND_BUFFER_STATE_IN_RENDER_PASS == "IN_RENDER_PASS"
COMMAND_BUFFER_STATE_RECORDING_ENDED == "RECORDING_ENDED"

\* enum vulkan_command_buffer_state; the first enumerator is the value 0,
\* which is what kzero_memory leaves in the state field
\* enum vulkan_renderpass_state
READY == "READY"
RECORDING == "RECORDING"
IN_RENDER_PASS == "IN_RENDER_PASS"
RECORDING_ENDED == "RECORDING_ENDED"
SUBMITTED == "SUBMITTED"
NOT_ALLOCATED == "NOT_ALLOCATED"

vulkan_renderpass_state ==
    {READY, RECORDING, IN_RENDER_PASS, RECORDING_ENDED, SUBMITTED, NOT_ALLOCATED}

vulkan_command_buffer_state ==
    { COMMAND_BUFFER_STATE_READY, COMMAND_BUFFER_STATE_RECORDING,
      COMMAND_BUFFER_STATE_SUBMITTED, COMMAND_BUFFER_STATE_NOT_ALLOCATED,
      COMMAND_BUFFER_STATE_IN_RENDER_PASS, COMMAND_BUFFER_STATE_RECORDING_ENDED }

Handles == 1..MaxHandle

VARIABLES
    cb_handle,     \* vulkan_command_buffer.handle (VK_NULL_HANDLE or a handle)
    cb_state,      \* vulkan_command_buffer.state
    pool,          \* driver side: the command buffers allocated from the pool
    calls,         \* the calls made by the last operation, in call order
    last_op,       \* the last operation of the tracker that ran
    pre_state,     \* cb_state when the last operation was entered
    pre_handle,    \* cb_handle when the last operation was entered
    seq_pos,       \* steps of Begin, End, MarkSubmitted, Reset run in a row
    seq_handle,    \* cb_handle when the first of these steps was entered
    rp_state,      \* vulkan_renderpass.state of the main render pass
    rp_pre,        \* rp_state when the last operation was entered
    rp_ret,        \* what the last render-pass Begin or End returned
    p_req,         \* prober: the requirements descriptor it is given
    p_dev,         \* prober: the accelerator it is given
    p_surface,     \* prober: whether the surface handle is non-null
    p_done,        \* prober: whether it has returned
    p_res,         \* prober: its verdict, queue info and support info
    physical_devices, \* what vkEnumeratePhysicalDevices reports, in order
    device,        \* context->device
    pre_device,    \* context->device when the last selection was entered
    sel_done,      \* whether a selection has returned
    sel_ret,       \* what the last selection returned
    leaked,        \* support lists whose pointer was overwritten unreleased
    swapchain,     \* context->swapchain (struct vulkan_swapchain)
    capabilities,  \* context->device.swapchain_support.capabilities
    surface_formats, \* context->device.swapchain_support.formats
    vk_swapchains, \* driver side: the swapchains that exist
    sw_op,         \* the last operation of the swapchain manager that ran
    sw_req,        \* the width and height it was asked for
    sw_pre,        \* what context->swapchain held when that operation was entered
    sw_calls,      \* the driver and allocator calls it made, in call order
    debug_build,   \* whether _DEBUG is defined (a diagnostic build)
    available_layers, \* what vkEnumerateInstanceLayerProperties reports
    layers_seen,   \* the available-layer list as the layer check read it
    boot_pc,       \* vulkan_renderer_backend_initialize: the step it is at
    boot_ret,      \* what it returned: "TRUE", "FALSE", or "none" so far
    boot_trace,    \* the creation steps it attempted, in order
    vk_instance,   \* whether context.instance is a live VkInstance
    vk_surface,    \* whether context.surface is a live VkSurfaceKHR
    context,       \* the static vulkan_context: its framebuffer size, its
                   \* recreating_swapchain flag, image_index, debug_messenger
    ctx_op,        \* the last operation of the backend or the device that ran
    ctx_prev,      \* the one that ran before it
    ctx_ret,       \* what it returned
    ctx_calls,     \* the destroy calls it made, in call order
    queue_create_infos, \* the queue-create list last handed to vkCreateDevice
    acquire,       \* the last vulkan_swapchain_acquire_next_image: what ran
                   \* before it, the driver's result, and what it returned
    graphics_command_buffers, \* context.graphics_command_buffers: the array
                   \* of command buffers, <<>> while the pointer is null
    clock,         \* a struct clock
    now,           \* the absolute time of the platform
    clock_op,      \* the last operation on the clock that ran
    clock_running, \* whether the clock was started and not stopped since
    clock_pre      \* the clock when the last operation was entered

cbcore ==
    <<cb_handle, cb_state, pool, calls, last_op, pre_state, pre_handle,
      seq_pos, seq_handle>>

rpvars == <<rp_state, rp_pre, rp_ret>>

cbvars == <<cbcore, rpvars>>

pvars == <<p_req, p_dev, p_surface, p_done, p_res>>

svars == <<physical_devices, device, pre_device, sel_done, sel_ret, leaked>>

swvars ==
    <<swapchain, capabilities, surface_formats, vk_swapchains, sw_op, sw_req,
      sw_pre, sw_calls>>

bvars ==
    <<debug_build, available_layers, layers_seen, boot_pc, boot_ret, boot_trace,
      vk_instance, vk_surface>>

xvars ==
    <<context, ctx_op, ctx_prev, ctx_ret, ctx_calls, queue_create_infos, acquire,
      graphics_command_buffers>>

kvars == <<clock, now, clock_op, clock_running, clock_pre>>

vars == <<cbvars, pvars, svars, swvars, bvars, xvars, kvars>>

\* one call: the function, the command-buffer handle it was given, and whether
\* the driver returned VK_SUCCESS (VK_CHECK logs any other code and goes on)
Call(fn, h, ok) == [fn |-> fn, h |-> h, ok |-> ok]

CallNames(s) == [i \in 1..Len(s) |-> s[i].fn]

\* ------------------------------------------------------------------------
\* vulkan_command_buffer.c
\* ------------------------------------------------------------------------

\* The effect of vulkan_command_buffer_allocate on (handle, state, pool):
\* the struct is zeroed, the state set to NOT_ALLOCATED, and the driver asked
\* for one buffer. Nothing is assigned to the state after the driver call.
AllocateEffect(ok, h) ==
    /\ IF ok THEN /\ h \in Handles \ pool
                  /\ cb_handle' = h
                  /\ pool' = pool \cup {h}
             ELSE /\ h = VK_NULL_HANDLE
                  /\ cb_handle' = VK_NULL_HANDLE
                  /\ pool' = pool
    /\ cb_state' = COMMAND_BUFFER_STATE_NOT_ALLOCATED

\* The calls begin, end, update_submitted, reset of one frame, in this order,
\* on a buffer whose handle is live: how many of them have run in a row once
\* op has run (0: op is out of order, or is another operation). The count
\* starts again at 1 after MaxCycles rounds.
NextPos(op) ==
    LET k == seq_pos % 4
        starts == IF cb_handle # VK_NULL_HANDLE THEN 1 ELSE 0
    IN  CASE op = "begin" ->
                 IF seq_pos > 0 /\ k = 0 /\ seq_pos < 4 * MaxCycles
                 THEN seq_pos + 1 ELSE starts
          [] op = "end" -> IF k = 1 THEN seq_pos + 1 ELSE 0
          [] op = "update_submitted" -> IF k = 2 THEN seq_pos + 1 ELSE 0
          [] op = "reset" -> IF k = 3 THEN seq_pos + 1 ELSE 0
          [] OTHER -> 0

\* every operation on the command buffer records what it was entered with,
\* and leaves the prober, the selector and the swapchain alone
Observe(op) ==
    /\ rp_pre' = rp_state
    /\ last_op' = op
    /\ pre_state' = cb_state
    /\ pre_handle' = cb_handle
    /\ seq_pos' = NextPos(op)
    /\ seq_handle' = IF NextPos(op) = 0 THEN VK_NULL_HANDLE
                     ELSE IF NextPos(op) = 1 THEN cb_handle
                     ELSE seq_handle

\* an operation called on the command buffer of a running renderer
EnterAny(op) ==
    Observe(op) /\ UNCHANGED <<pvars, svars, swvars, bvars, xvars, kvars>>

\* the operations of vulkan_command_buffer.c do not touch the render pass
Enter(op) == EnterAny(op) /\ UNCHANGED <<rp_state, rp_ret>>

vulkan_command_buffer_allocate ==
    \E ok \in BOOLEAN, h \in Handles \cup {VK_NULL_HANDLE} :
        /\ Enter("allocate")
        /\ AllocateEffect(ok, h)
        /\ calls' = <<Call("vkAllocateCommandBuffers", h, ok)>>

\* a mutant: the state is reset whether or not there was a handle to free
command_buffer_free_always_resets ==
    /\ Enter("free")
    /\ calls' = IF cb_handle # VK_NULL_HANDLE
                THEN <<Call("vkFreeCommandBuffers", cb_handle, TRUE)>>
                ELSE <<>>
    /\ pool' = pool \ {cb_handle}
    /\ cb_handle' = VK_NULL_HANDLE
    /\ cb_state' = COMMAND_BUFFER_STATE_NOT_ALLOCATED

\* command_buffer_free: acts only on a non-null handle
command_buffer_free ==
    /\ Enter("free")
    /\ calls' = IF cb_handle # VK_NULL_HANDLE
                THEN <<Call("vkFreeCommandBuffers", cb_handle, TRUE)>>
                ELSE <<>>
    /\ IF cb_handle # VK_NULL_HANDLE
       THEN /\ pool' = pool \ {cb_handle}
            /\ cb_handle' = VK_NULL_HANDLE
            /\ cb_state' = COMMAND_BUFFER_STATE_NOT_ALLOCATED
       ELSE UNCHANGED <<pool, cb_handle, cb_state>>

\* command_buffer_begin: the state is not read; whatever the driver answers,
\* the state becomes RECORDING. The three booleans only make up the usage
\* flags handed to the driver.
command_buffer_begin ==
    \E ok \in BOOLEAN :
        /\ Enter("begin")
        /\ calls' = <<Call("vkBeginCommandBuffer", cb_handle, ok)>>
        /\ cb_state' = COMMAND_BUFFER_STATE_RECORDING
        /\ UNCHANGED <<cb_handle, pool>>

\* a mutant: End leaves the buffer in RECORDING_ENDED
vulkan_command_buffer_end_recording_ended ==
    \E ok \in BOOLEAN :
        /\ Enter("end")
        /\ calls' = <<Call("vkEndCommandBuffer", cb_handle, ok)>>
        /\ cb_state' = COMMAND_BUFFER_STATE_RECORDING_ENDED
        /\ UNCHANGED <<cb_handle, pool>>

vulkan_command_buffer_end ==
    \E ok \in BOOLEAN :
        /\ Enter("end")
        /\ calls' = <<Call("vkEndCommandBuffer", cb_handle, ok)>>
        /\ cb_state' = COMMAND_BUFFER_STATE_READY
        /\ UNCHANGED <<cb_handle, pool>>

vulkan_command_buffer_update_submitted ==
    /\ Enter("update_submitted")
    /\ calls' = <<>>
    /\ cb_state' = COMMAND_BUFFER_STATE_SUBMITTED
    /\ UNCHANGED <<cb_handle, pool>>

vulkan_command_buffer_reset ==
    \E ok \in BOOLEAN :
        /\ Enter("reset")
        /\ calls' = <<Call("vkResetCommandBuffer", cb_handle, ok)>>
        /\ cb_state' = COMMAND_BUFFER_STATE_READY
        /\ UNCHANGED <<cb_handle, pool>>

\* allocate, then begin(single use): the begin overwrites the state
vulkan_command_buffer_allocate_and_begin_single_use ==
    \E ok \in BOOLEAN, h \in Handles \cup {VK_NULL_HANDLE}, okb \in BOOLEAN :
        /\ Enter("allocate_and_begin_single_use")
        /\ IF ok THEN /\ h \in Handles \ pool
                      /\ pool' = pool \cup {h}
                 ELSE /\ h = VK_NULL_HANDLE
                      /\ pool' = pool
        /\ cb_handle' = h
        /\ cb_state' = COMMAND_BUFFER_STATE_RECORDING
        /\ calls' = <<Call("vkAllocateCommandBuffers", h, ok),
                      Call("vkBeginCommandBuffer", h, okb)>>

\* a mutant: the queue is not waited for when the submit fails
end_and_free_single_use_no_wait ==
    \E oke \in BOOLEAN, oks \in BOOLEAN, okw \in BOOLEAN :
        /\ Enter("end_and_free_single_use")
        /\ calls' = <<Call("vkEndCommandBuffer", cb_handle, oke),
                      Call("command_buffer_free", cb_handle, TRUE),
                      Call("vkQueueSubmit", VK_NULL_HANDLE, oks)>>
                    \o (IF oks THEN <<Call("vkQueueWaitIdle", VK_NULL_HANDLE, okw)>>
                               ELSE <<>>)
        /\ pool' = pool \ {cb_handle}
        /\ cb_handle' = VK_NULL_HANDLE
        /\ cb_state' = IF cb_handle # VK_NULL_HANDLE
                       THEN COMMAND_BUFFER_STATE_NOT_ALLOCATED
                       ELSE COMMAND_BUFFER_STATE_READY

\* vulkan_command_buffer_end_and_free_single_use: end, free, then the submit
\* of command_buffer->handle as free left it, then the wait. No VK_CHECK
\* returns, so the four steps always run.
vulkan_command_buffer_end_and_free_single_use ==
    \E oke \in BOOLEAN, oks \in BOOLEAN, okw \in BOOLEAN :
        /\ Enter("end_and_free_single_use")
        /\ calls' = <<Call("vkEndCommandBuffer", cb_handle, oke),
                      Call("command_buffer_free", cb_handle, TRUE),
                      Call("vkQueueSubmit", VK_NULL_HANDLE, oks),
                      Call("vkQueueWaitIdle", VK_NULL_HANDLE, okw)>>
        /\ pool' = pool \ {cb_handle}
        /\ cb_handle' = VK_NULL_HANDLE
        /\ cb_state' = IF cb_handle # VK_NULL_HANDLE
                       THEN COMMAND_BUFFER_STATE_NOT_ALLOCATED
                       ELSE COMMAND_BUFFER_STATE_READY

\* ------------------------------------------------------------------------
\* vulkan_renderpass.h: the render pass controller. Begin and End are
\* declared there; their bodies are not part of the sources at hand and are
\* modelled after the specification of the controller (section 4.6).
\* ------------------------------------------------------------------------

\* a mutant: Begin does not look at the state of the command buffer
vulkan_renderpass_begin_unchecked ==
    /\ EnterAny("renderpass_begin")
    /\ calls' = <<Call("vkCmdBeginRenderPass", cb_handle, TRUE)>>
    /\ rp_state' = IN_RENDER_PASS
    /\ cb_state' = COMMAND_BUFFER_STATE_IN_RENDER_PASS
    /\ rp_ret' = TRUE
    /\ UNCHANGED <<cb_handle, pool>>

\* vulkan_renderpass_begin(renderpass, command_buffer, framebuffer): valid
\* only while the command buffer is RECORDING; binds the framebuffer and
\* moves the pass and the command buffer to IN_RENDER_PASS
vulkan_renderpass_begin ==
    /\ EnterAny("renderpass_begin")
    /\ IF cb_state = COMMAND_BUFFER_STATE_RECORDING
       THEN /\ calls' = <<Call("vkCmdBeginRenderPass", cb_handle, TRUE)>>
            /\ rp_state' = IN_RENDER_PASS
            /\ cb_state' = COMMAND_BUFFER_STATE_IN_RENDER_PASS
            /\ rp_ret' = TRUE
       ELSE /\ calls' = <<>>
            /\ rp_ret' = FALSE
            /\ UNCHANGED <<rp_state, cb_state>>
    /\ UNCHANGED <<cb_handle, pool>>

\* vulkan_renderpass_end(renderpass, command_buffer): valid only from
\* IN_RENDER_PASS, the command buffer being in step; moves both to
\* RECORDING_ENDED
vulkan_renderpass_end ==
    /\ EnterAny("renderpass_end")
    /\ IF /\ rp_state = IN_RENDER_PASS
          /\ cb_state = COMMAND_BUFFER_STATE_IN_RENDER_PASS
       THEN /\ calls' = <<Call("vkCmdEndRenderPass", cb_handle, TRUE)>>
            /\ rp_state' = RECORDING_ENDED
            /\ cb_state' = COMMAND_BUFFER_STATE_RECORDING_ENDED
            /\ rp_ret' = TRUE
       ELSE /\ calls' = <<>>
            /\ rp_ret' = FALSE
            /\ UNCHANGED <<rp_state, cb_state>>
    /\ UNCHANGED <<cb_handle, pool>>

\* ------------------------------------------------------------------------
\* vulkan_device.c: the capability prober
\* ------------------------------------------------------------------------
VK_QUEUE_GRAPHICS_BIT == "GRAPHICS"
VK_QUEUE_COMPUTE_BIT == "COMPUTE"
VK_QUEUE_TRANSFER_BIT == "TRANSFER"
QueueBits == {VK_QUEUE_GRAPHICS_BIT, VK_QUEUE_COMPUTE_BIT, VK_QUEUE_TRANSFER_BIT}

VK_KHR_SWAPCHAIN_EXTENSION_NAME == "VK_KHR_swapchain"
OTHER_EXTENSION_NAME == "VK_KHR_maintenance1"
ExtNames == {VK_KHR_SWAPCHAIN_EXTENSION_NAME, OTHER_EXTENSION_NAME}

\* the "not found" value the prober starts every family index with
NotFound == -1

\* the initial min_transfer_score of the prober
InitialMinTransferScore == 255

\* struct vulkan_physical_device_queue_family_info
NoQueueInfo ==
    [graphics |-> NotFound, present |-> NotFound,
     compute |-> NotFound, transfer |-> NotFound]

\* struct vulkan_swapchain_support_info. capabilities is the handle of the
\* accelerator whose surface capabilities were written last (0: zeroed);
\* formats and present_modes tell whether the pointer is non-null.
ZeroSupport ==
    [capabilities |-> 0, format_count |-> 0, formats |-> FALSE,
     present_mode_count |-> 0, present_modes |-> FALSE]

\* vulkan_device_query_swapchain_support(physical_device, surface, out):
\* rep is what the driver answers to the five queries, sup the struct as it
\* was on entry
vulkan_device_query_swapchain_support(dev, rep, sup) ==
    LET z == [sup EXCEPT !.format_count = 0, !.present_mode_count = 0,
                         !.formats = FALSE, !.present_modes = FALSE]
    IN  IF ~rep.caps_ok THEN z
        ELSE LET c == [z EXCEPT !.capabilities = dev] IN
        IF ~rep.format_count_ok THEN c
        ELSE IF rep.n_formats > 0 /\ ~rep.formats_ok THEN c
        ELSE LET f == [c EXCEPT !.format_count = rep.n_formats,
                                !.formats = rep.n_formats > 0] IN
        IF ~rep.mode_count_ok THEN f
        ELSE IF rep.n_modes > 0 /\ ~rep.modes_ok THEN f
        ELSE [f EXCEPT !.present_mode_count = rep.n_modes,
                       !.present_modes = rep.n_modes > 0]

\* the lists a support struct holds on entry and that the first lines of
\* vulkan_device_query_swapchain_support cut loose: both pointers are set to
\* NULL without a kfree
Overwritten(sup) ==
    (IF sup.formats THEN 1 ELSE 0) + (IF sup.present_modes THEN 1 ELSE 0)

\* the specialization score of a family: the capability bits it has
Score(fam) == Cardinality(fam.flags \cap QueueBits)

\* a mutant: the first transfer-capable family is kept, whatever its score
ScanFamilyFirstTransfer(fam, i, acc, req, surface) ==
    LET q1 == IF VK_QUEUE_GRAPHICS_BIT \in fam.flags
              THEN [acc.q EXCEPT !.graphics = i] ELSE acc.q
        q2 == IF VK_QUEUE_COMPUTE_BIT \in fam.flags
              THEN [q1 EXCEPT !.compute = i] ELSE q1
        takes == /\ VK_QUEUE_TRANSFER_BIT \in fam.flags
                 /\ acc.q.transfer = NotFound
        q3 == IF takes THEN [q2 EXCEPT !.transfer = i] ELSE q2
        m3 == IF takes THEN Cardinality(fam.flags \cap QueueBits) ELSE acc.min
        q4 == IF req.present /\ surface /\ fam.present = "yes"
              THEN [q3 EXCEPT !.present = i] ELSE q3
    IN  [q |-> q4, min |-> m3]

\* a mutant: a failed present-support query makes the loop skip the family
\* before anything of it is recorded
ScanFamilySkipOnError(fam, i, acc, req, surface) ==
    IF req.present /\ surface /\ fam.present = "error" THEN acc
    ELSE
    LET q1 == IF VK_QUEUE_GRAPHICS_BIT \in fam.flags
              THEN [acc.q EXCEPT !.graphics = i] ELSE acc.q
        q2 == IF VK_QUEUE_COMPUTE_BIT \in fam.flags
              THEN [q1 EXCEPT !.compute = i] ELSE q1
        takes == /\ VK_QUEUE_TRANSFER_BIT \in fam.flags
                 /\ Score(fam) <= acc.min
        q3 == IF takes THEN [q2 EXCEPT !.transfer = i] ELSE q2
        m3 == IF takes THEN Score(fam) ELSE acc.min
        q4 == IF req.present /\ surface /\ fam.present = "yes"
              THEN [q3 EXCEPT !.present = i] ELSE q3
    IN  [q |-> q4, min |-> m3]

\* one iteration of the queue-family loop, for the family of index i
\* (0-based, as in the code); acc carries queue_info and min_transfer_score
ScanFamily(fam, i, acc, req, surface) ==
    LET q1 == IF VK_QUEUE_GRAPHICS_BIT \in fam.flags
              THEN [acc.q EXCEPT !.graphics = i] ELSE acc.q
        q2 == IF VK_QUEUE_COMPUTE_BIT \in fam.flags
              THEN [q1 EXCEPT !.compute = i] ELSE q1
        takes == /\ VK_QUEUE_TRANSFER_BIT \in fam.flags
                 /\ Score(fam) <= acc.min
        q3 == IF takes THEN [q2 EXCEPT !.transfer = i] ELSE q2
        m3 == IF takes THEN Score(fam) ELSE acc.min
        q4 == IF req.present /\ surface /\ fam.present = "yes"
              THEN [q3 EXCEPT !.present = i] ELSE q3
    IN  [q |-> q4, min |-> m3]

RECURSIVE ScanFamilies(_, _, _, _, _)
ScanFamilies(fams, i, acc, req, surface) ==
    IF i >= Len(fams) THEN acc
    ELSE ScanFamilies(fams, i + 1,
                      ScanFamily(fams[i + 1], i, acc, req, surface),
                      req, surface)

\* a mutant: a candidate is rejected for its support lists only when both
\* are empty
InsufficientSupportBoth(s) == s.format_count < 1 /\ s.present_mode_count < 1

\* the "insufficient swapchain support" test of the prober
InsufficientSupport(s) == s.format_count < 1 \/ s.present_mode_count < 1

\* the extension check of the prober: skipped without a required list;
\* fails when the accelerator reports no extension at all
ExtensionsMeet(req, exts) ==
    \/ req.device_extension_names = "NULL"
    \/ /\ exts # {}
       /\ \A k \in 1..Len(req.device_extension_names) :
              req.device_extension_names[k] \in exts

\* release of the support lists on the "insufficient swapchain support" path
ReleaseSupport(s) ==
    LET a == IF s.formats
             THEN [s EXCEPT !.formats = FALSE, !.format_count = 0] ELSE s
    IN  IF a.present_modes
        THEN [a EXCEPT !.present_modes = FALSE, !.present_mode_count = 0]
        ELSE a

\* the lists a support struct holds
HeldLists(s) ==
    (IF s.formats THEN {"formats"} ELSE {})
    \cup (IF s.present_modes THEN {"present_modes"} ELSE {})

\* physical_device_meets_requirements(device, surface, properties, features,
\* requirements, out_queue_info, out_swapchain_support).
\* d is the accelerator (handle d.handle), sup the support struct on entry.
\* held names what the call allocated and has not released when it returns:
\* the queue-family array is reserved and never released; the extension
\* array is released on both paths that follow its allocation.
physical_device_meets_requirements(d, surface, req, sup) ==
    IF req.discrete_gpu /\ d.deviceType # "DISCRETE"
    THEN [pass |-> FALSE, q |-> NoQueueInfo, support |-> sup, lost |-> 0,
          held |-> {}]
    ELSE IF Len(d.families) = 0
    THEN [pass |-> FALSE, q |-> NoQueueInfo, support |-> sup, lost |-> 0,
          held |-> {}]
    ELSE
    LET scan == ScanFamilies(d.families, 0,
                             [q |-> NoQueueInfo, min |-> InitialMinTransferScore],
                             req, surface)
        q == scan.q
    IN  IF \/ req.graphics /\ q.graphics = NotFound
           \/ req.present /\ q.present = NotFound
           \/ req.compute /\ q.compute = NotFound
           \/ req.transfer /\ q.transfer = NotFound
        THEN [pass |-> FALSE, q |-> q, support |-> sup, lost |-> 0,
              held |-> {"queue_families"}]
        ELSE
        LET s == vulkan_device_query_swapchain_support(d.handle, d.surface, sup)
            v == [pass |-> FALSE, q |-> q, support |-> s, lost |-> Overwritten(sup),
                  held |-> {"queue_families"} \cup HeldLists(s)]
        IN  IF InsufficientSupport(s)
            THEN [v EXCEPT !.support = ReleaseSupport(s),
                           !.held = {"queue_families"} \cup HeldLists(ReleaseSupport(s))]
            ELSE IF ~ExtensionsMeet(req, d.extensions)
            THEN v
            ELSE IF req.sampler_anisotropy /\ ~d.samplerAnisotropy
            THEN v
            ELSE [v EXCEPT !.pass = TRUE]

\* ------------------------------------------------------------------------
\* vulkan_device.c: the device selector
\* ------------------------------------------------------------------------
\* a mutant: the selector does not require a transfer family
SelectorRequirementsNoTransfer ==
    [graphics |-> TRUE, present |-> TRUE, compute |-> TRUE, transfer |-> FALSE,
     device_extension_names |-> <<VK_KHR_SWAPCHAIN_EXTENSION_NAME>>,
     sampler_anisotropy |-> TRUE, discrete_gpu |-> FALSE]

\* the requirements select_physical_device builds for every candidate
SelectorRequirements ==
    [graphics |-> TRUE, present |-> TRUE, compute |-> TRUE, transfer |-> TRUE,
     device_extension_names |-> <<VK_KHR_SWAPCHAIN_EXTENSION_NAME>>,
     sampler_anisotropy |-> TRUE, discrete_gpu |-> FALSE]

\* struct vulkan_device, the fields the selector and the prober write.
\* properties, features and memory hold the handle of the accelerator they
\* were copied from (0: zeroed).
\* logical_device tells whether the handle is non-null; a queue handle is
\* null or stands for queue 0 of a family (the index of the family plus 1).
ZeroDevice ==
    [physical_device |-> VK_NULL_HANDLE,
     logical_device |-> FALSE,
     graphics_queue_index |-> 0, present_queue_index |-> 0,
     transfer_queue_index |-> 0,
     graphics_queue |-> VK_NULL_HANDLE, present_queue |-> VK_NULL_HANDLE,
     transfer_queue |-> VK_NULL_HANDLE,
     graphics_command_pool |-> VK_NULL_HANDLE,
     properties |-> 0, features |-> 0, memory |-> 0,
     depth_format |-> "VK_FORMAT_UNDEFINED",
     swapchain_support |-> ZeroSupport]

\* physical_devices[i] of the enumeration: the accelerator at position i,
\* whose handle is its position
Candidate(devs, i) == [devs[i] EXCEPT !.handle = i]

\* the loop of select_physical_device from candidate i on (1-based here).
\* The prober is handed &context->device.swapchain_support, so what it
\* leaves there stays in the device whatever its verdict.
RECURSIVE SelectFrom(_, _, _)
SelectFrom(devs, i, dev) ==
    IF i > Len(devs) THEN [ret |-> FALSE, device |-> dev]
    ELSE
    LET r == physical_device_meets_requirements(
                 Candidate(devs, i), TRUE, SelectorRequirements,
                 dev.swapchain_support)
        probed == [dev EXCEPT !.swapchain_support = r.support]
    IN  IF r.pass
        THEN [ret |-> TRUE,
              device |-> [probed EXCEPT
                            !.physical_device = i,
                            !.graphics_queue_index = r.q.graphics,
                            !.present_queue_index = r.q.present,
                            !.transfer_queue_index = r.q.transfer,
                            !.properties = i, !.features = i, !.memory = i]]
        ELSE SelectFrom(devs, i + 1, probed)

\* a mutant: the loop goes on after a candidate passed, so that the last
\* passing candidate is the one selected
RECURSIVE SelectLastFrom(_, _, _)
SelectLastFrom(devs, i, dev) ==
    IF i > Len(devs) THEN [ret |-> dev.physical_device # VK_NULL_HANDLE, device |-> dev]
    ELSE
    LET r == physical_device_meets_requirements(
                 Candidate(devs, i), TRUE, SelectorRequirements,
                 dev.swapchain_support)
        probed == [dev EXCEPT !.swapchain_support = r.support]
    IN  IF r.pass
        THEN SelectLastFrom(devs, i + 1,
                 [probed EXCEPT
                    !.physical_device = i,
                    !.graphics_queue_index = r.q.graphics,
                    !.present_queue_index = r.q.present,
                    !.transfer_queue_index = r.q.transfer,
                    !.properties = i, !.features = i, !.memory = i])
        ELSE SelectLastFrom(devs, i + 1, probed)

select_physical_device_last(devs, dev) ==
    IF Len(devs) = 0 THEN [ret |-> FALSE, device |-> dev]
    ELSE SelectLastFrom(devs, 1, [dev EXCEPT !.physical_device = VK_NULL_HANDLE])

\* select_physical_device(context): fails at once on an empty enumeration
select_physical_device(devs, dev) ==
    IF Len(devs) = 0 THEN [ret |-> FALSE, device |-> dev]
    ELSE SelectFrom(devs, 1, dev)

\* the support lists the loop of select_physical_device cuts loose from
\* candidate i on: what each probe overwrote, up to the candidate that passes
RECURSIVE LostFrom(_, _, _)
LostFrom(devs, i, dev) ==
    IF i > Len(devs) THEN 0
    ELSE
    LET r == physical_device_meets_requirements(
                 Candidate(devs, i), TRUE, SelectorRequirements,
                 dev.swapchain_support)
    IN  r.lost + (IF r.pass THEN 0
                  ELSE LostFrom(devs, i + 1,
                                [dev EXCEPT !.swapchain_support = r.support]))

\* the selection as seen from outside: the device it leaves, what it
\* returned, and the lists it cut loose
Selection ==
    LET r == select_physical_device(physical_devices, device)
    IN  /\ pre_device' = device
        /\ sel_ret' = r.ret
        /\ sel_done' = TRUE
        /\ leaked' = LostFrom(physical_devices, 1, device)

\* the selection as a step of the renderer
Select ==
    LET r == select_physical_device(physical_devices, device)
    IN  /\ Selection
        /\ device' = r.device
        /\ UNCHANGED <<physical_devices, cbvars, pvars, swvars, bvars, xvars, kvars>>

\* ------------------------------------------------------------------------
\* vulkan_device.c: the logical device builder
\* ------------------------------------------------------------------------
\* the queue-create list of vulkan_device_create: the graphics family, then
\* the present family and the transfer family, each if it is not the
\* graphics family; one queue is asked of each
QueueCreateInfos(dev) ==
    LET indices ==
            <<dev.graphics_queue_index>>
            \o (IF dev.graphics_queue_index # dev.present_queue_index
                THEN <<dev.present_queue_index>> ELSE <<>>)
            \o (IF dev.graphics_queue_index # dev.transfer_queue_index
                THEN <<dev.transfer_queue_index>> ELSE <<>>)
    IN  [i \in 1..Len(indices) |->
            [queueFamilyIndex |-> indices[i], queueCount |-> 1]]

\* a b8 as an operation returns it
B8(b) == IF b THEN "TRUE" ELSE "FALSE"

\* queue 0 of a family, as vkGetDeviceQueue hands it out
QueueOf(family) == family + 1

\* what vulkan_device_create does to the device: the selection, whose
\* failure is fatal; then the queue-create list and vkCreateDevice (ok tells
\* whether it returned VK_SUCCESS), whose failure is fatal too; then the
\* three queues
DeviceCreation(ok) ==
    LET r == select_physical_device(physical_devices, device)
        d == r.device
    IN  /\ Selection
        /\ ok => r.ret
        /\ queue_create_infos' =
               IF r.ret THEN QueueCreateInfos(d) ELSE queue_create_infos
        /\ device' =
               IF ok
               THEN [d EXCEPT !.logical_device = TRUE,
                              !.graphics_queue = QueueOf(d.graphics_queue_index),
                              !.present_queue = QueueOf(d.present_queue_index),
                              !.transfer_queue = QueueOf(d.transfer_queue_index)]
               ELSE d

\* vulkan_device_create(context), called while there is no logical device
vulkan_device_create ==
    \E ok \in BOOLEAN :
        /\ ~device.logical_device
        /\ DeviceCreation(ok)
        /\ ctx_op' = "vulkan_device_create"
        /\ ctx_prev' = ctx_op
        /\ ctx_ret' = B8(ok)
        /\ ctx_calls' = <<>>
        /\ UNCHANGED <<physical_devices, context, acquire, graphics_command_buffers,
                       cbvars, pvars, swvars, bvars, kvars>>

\* a mutant: teardown leaves the cached queue indices as they are
DestroyedDeviceKeepsIndices(dev) ==
    [dev EXCEPT
        !.graphics_queue = VK_NULL_HANDLE,
        !.present_queue = VK_NULL_HANDLE,
        !.transfer_queue = VK_NULL_HANDLE,
        !.logical_device = FALSE,
        !.physical_device = VK_NULL_HANDLE,
        !.swapchain_support = [ReleaseSupport(dev.swapchain_support)
                                   EXCEPT !.capabilities = 0]]

\* a mutant: teardown leaves the handle of the accelerator in the device
DestroyedDeviceKeepsPhysical(dev) ==
    [dev EXCEPT
        !.graphics_queue = VK_NULL_HANDLE,
        !.present_queue = VK_NULL_HANDLE,
        !.transfer_queue = VK_NULL_HANDLE,
        !.logical_device = FALSE,
        !.swapchain_support = [ReleaseSupport(dev.swapchain_support)
                                   EXCEPT !.capabilities = 0],
        !.graphics_queue_index = NotFound,
        !.present_queue_index = NotFound,
        !.transfer_queue_index = NotFound]

\* the device as vulkan_device_destroy leaves it: the queues unset, the
\* logical device destroyed if there is one, the accelerator's handle
\* zeroed, each support list released if it is held, the capabilities
\* zeroed, and the three queue indices set to -1
DestroyedDevice(dev) ==
    [dev EXCEPT
        !.graphics_queue = VK_NULL_HANDLE,
        !.present_queue = VK_NULL_HANDLE,
        !.transfer_queue = VK_NULL_HANDLE,
        !.logical_device = FALSE,
        !.physical_device = VK_NULL_HANDLE,
        !.swapchain_support = [ReleaseSupport(dev.swapchain_support)
                                   EXCEPT !.capabilities = 0],
        !.graphics_queue_index = NotFound,
        !.present_queue_index = NotFound,
        !.transfer_queue_index = NotFound]

\* what vulkan_device_destroy hands back to the driver and to the
\* allocator, in call order
DestroyCalls(dev) ==
    (IF dev.logical_device THEN <<"vkDestroyDevice">> ELSE <<>>)
    \o (IF dev.swapchain_support.formats THEN <<"kfree formats">> ELSE <<>>)
    \o (IF dev.swapchain_support.present_modes
        THEN <<"kfree present_modes">> ELSE <<>>)

\* vulkan_device_destroy(context)
vulkan_device_destroy ==
    /\ pre_device' = device
    /\ device' = DestroyedDevice(device)
    /\ ctx_op' = "vulkan_device_destroy"
    /\ ctx_prev' = ctx_op
    /\ ctx_ret' = "none"
    /\ ctx_calls' = DestroyCalls(device)
    /\ UNCHANGED <<physical_devices, sel_done, sel_ret, leaked, context,
                   queue_create_infos, acquire, graphics_command_buffers,
                   cbvars, pvars, swvars, bvars, kvars>>

\* the depth formats vulkan_device_detect_depth_format tries, in order
DepthCandidates ==
    <<"VK_FORMAT_D32_SFLOAT", "VK_FORMAT_D32_SFLOAT_S8_UINT",
      "VK_FORMAT_D24_UNORM_S8_UINT">>

\* vulkan_device_detect_depth_format(device), on a created device: the
\* first candidate the accelerator supports as a depth attachment
\* (supported: the candidates it does) is stored; FALSE if there is none
vulkan_device_detect_depth_format ==
    \E supported \in SUBSET (1..Len(DepthCandidates)) :
        /\ device.logical_device
        /\ pre_device' = device
        /\ device' =
               IF supported = {} THEN device
               ELSE [device EXCEPT !.depth_format =
                        DepthCandidates[CHOOSE i \in supported :
                                            \A j \in supported : i <= j]]
        /\ ctx_op' = "vulkan_device_detect_depth_format"
        /\ ctx_prev' = ctx_op
        /\ ctx_ret' = B8(supported # {})
        /\ ctx_calls' = <<>>
        /\ UNCHANGED <<physical_devices, sel_done, sel_ret, leaked, context,
                       queue_create_infos, acquire, graphics_command_buffers,
                       cbvars, pvars, swvars, bvars, kvars>>

\* ------------------------------------------------------------------------
\* vulkan_swapchain.c: the swapchain manager
\* ------------------------------------------------------------------------
\* the all-ones u32, written as the bit pattern of -1: the code only tests
\* a width for equality with it, and no width of the model reaches it
UINT32_MAX == -1

\* the value of currentExtent that tells the surface has no size of its own
UndefinedExtent == [width |-> UINT32_MAX, height |-> UINT32_MAX]

VK_FORMAT_B8G8R8A8_SRGB == "VK_FORMAT_B8G8R8A8_SRGB"
VK_FORMAT_R8G8B8A8_UNORM == "VK_FORMAT_R8G8B8A8_UNORM"
VK_COLOR_SPACE_SRGB_NONLINEAR_KHR == "VK_COLOR_SPACE_SRGB_NONLINEAR_KHR"

SurfaceFormat(f) == [format |-> f, colorSpace |-> VK_COLOR_SPACE_SRGB_NONLINEAR_KHR]

\* a zeroed struct vulkan_swapchain: the fields create and destroy use
ZeroSwapchain ==
    [image_format |-> [format |-> "VK_FORMAT_UNDEFINED",
                       colorSpace |-> VK_COLOR_SPACE_SRGB_NONLINEAR_KHR],
     extent |-> [width |-> 0, height |-> 0],
     swapchain |-> VK_NULL_HANDLE,
     image_count |-> 0,
     images |-> FALSE,
     image_views |-> FALSE]

\* the surface format create chooses: the first BGRA8 sRGB format of the
\* list, or else the first format
ChooseFormat(formats) ==
    LET wanted == {i \in 1..Len(formats) :
                      /\ formats[i].format = VK_FORMAT_B8G8R8A8_SRGB
                      /\ formats[i].colorSpace = VK_COLOR_SPACE_SRGB_NONLINEAR_KHR}
    IN  IF wanted = {} THEN formats[1]
        ELSE formats[CHOOSE i \in wanted : \A j \in wanted : i <= j]

\* one component of the extent when the surface has no size of its own
ClampDim(v, lo, hi) == IF v < lo THEN lo ELSE IF v > hi THEN hi ELSE v

\* a mutant: the requested size is always clamped into the surface limits
ChooseExtentAlwaysClamped(caps, width, height) ==
    [width |-> ClampDim(width, caps.minImageExtent.width, caps.maxImageExtent.width),
     height |-> ClampDim(height, caps.minImageExtent.height, caps.maxImageExtent.height)]

\* a mutant: the current extent of the surface is taken even when it is the
\* undefined one
ChooseExtentCurrentAlways(caps, width, height) == caps.currentExtent

\* the extent create chooses
ChooseExtent(caps, width, height) ==
    IF caps.currentExtent.width # UINT32_MAX THEN caps.currentExtent
    ELSE [width |-> ClampDim(width, caps.minImageExtent.width,
                             caps.maxImageExtent.width),
          height |-> ClampDim(height, caps.minImageExtent.height,
                              caps.maxImageExtent.height)]

\* a mutant: one image more than the minimum, whatever the maximum is
ChooseImageCountUnclamped(caps) == caps.minImageCount + 1

\* the image count create chooses (the u32 sum does not wrap for the counts
\* a surface reports)
ChooseImageCount(caps) ==
    LET image_count == caps.minImageCount + 1
    IN  IF caps.maxImageCount > 0 /\ image_count > caps.maxImageCount
        THEN caps.maxImageCount ELSE image_count

\* the handle the driver gives the next swapchain it creates, live being
\* the swapchains that exist
NewSwapchain(live) == CHOOSE h \in 1..MaxSwapchains : h \notin live

\* the driver creates a swapchain only while it has a handle left to give
CanCreate(live) == Cardinality(live) < MaxSwapchains

\* what a swapchain struct holds: whether it has a handle, an image array
\* and a view array, and the number of views in that array
Held(sc) ==
    [swapchain |-> sc.swapchain # VK_NULL_HANDLE, images |-> sc.images,
     image_views |-> sc.image_views,
     view_count |-> IF sc.image_views THEN sc.image_count ELSE 0]

\* one call of the swapchain manager: the function and, for
\* vkCreateSwapchainKHR, the handle given as create_info.oldSwapchain, for
\* vkDestroyImageView, the place of the view in the array
SwapchainCall(fn, arg) == [fn |-> fn, arg |-> arg]

\* the call create makes
create_calls == <<SwapchainCall("vkCreateSwapchainKHR", VK_NULL_HANDLE)>>

\* a mutant: the swapchain is destroyed before its image views
destroy_calls_handle_first(sc) ==
    (IF sc.swapchain # VK_NULL_HANDLE
     THEN <<SwapchainCall("vkDestroySwapchainKHR", 0)>> ELSE <<>>)
    \o (IF sc.image_views
        THEN [i \in 1..sc.image_count |-> SwapchainCall("vkDestroyImageView", i)]
             \o <<SwapchainCall("darray_free image_views", 0)>>
        ELSE <<>>)
    \o (IF sc.images THEN <<SwapchainCall("darray_free images", 0)>> ELSE <<>>)

\* the calls destroy makes on the swapchain sc: if there is a view array,
\* vkDestroyImageView for each of its image_count views (here every view of
\* a held array is live) and the release of the array; if there is a
\* handle, vkDestroySwapchainKHR; if there is an image array, its release
destroy_calls(sc) ==
    (IF sc.image_views
     THEN [i \in 1..sc.image_count |-> SwapchainCall("vkDestroyImageView", i)]
          \o <<SwapchainCall("darray_free image_views", 0)>>
     ELSE <<>>)
    \o (IF sc.swapchain # VK_NULL_HANDLE
        THEN <<SwapchainCall("vkDestroySwapchainKHR", 0)>> ELSE <<>>)
    \o (IF sc.images THEN <<SwapchainCall("darray_free images", 0)>> ELSE <<>>)

\* create(context, width, height, out_swapchain), sc being *out_swapchain on
\* entry; ok tells whether vkCreateSwapchainKHR returned VK_SUCCESS. The
\* format, the extent and the image count are stored before the driver is
\* called; a failure is logged and leaves the handle as it was.
create(sc, live, width, height, ok) ==
    LET chosen == [sc EXCEPT
                      !.image_format = ChooseFormat(surface_formats),
                      !.extent = ChooseExtent(capabilities, width, height),
                      !.image_count = ChooseImageCount(capabilities)]
    IN  IF ok
        THEN [sc |-> [chosen EXCEPT !.swapchain = NewSwapchain(live)],
              live |-> live \cup {NewSwapchain(live)}]
        ELSE [sc |-> chosen, live |-> live]

\* destroy(context, swapchain): the views, then the swapchain, then the image
\* array, each if it is there; the image count is zeroed in any case
destroy(sc, live) ==
    [sc |-> [sc EXCEPT !.image_views = FALSE,
                       !.swapchain = VK_NULL_HANDLE,
                       !.images = FALSE,
                       !.image_count = 0],
     live |-> live \ {sc.swapchain}]

vulkan_swapchain_create ==
    \E width \in 0..(MaxDim + 1), height \in 0..(MaxDim + 1), ok \in BOOLEAN :
        LET c == create(swapchain, vk_swapchains, width, height, ok)
        IN  /\ ok => CanCreate(vk_swapchains)
            /\ swapchain' = c.sc
            /\ vk_swapchains' = c.live
            /\ sw_op' = "create"
            /\ sw_req' = [width |-> width, height |-> height]
            /\ sw_pre' = Held(swapchain)
            /\ sw_calls' = create_calls
            /\ UNCHANGED <<capabilities, surface_formats, cbvars, pvars, svars, bvars,
                           xvars, kvars>>

\* a mutant: the new swapchain is created from the old one, which is
\* destroyed afterwards
vulkan_swapchain_recreate_from_old ==
    \E width \in 0..(MaxDim + 1), height \in 0..(MaxDim + 1), ok \in BOOLEAN :
        LET d == destroy(swapchain, vk_swapchains)
            c == create(d.sc, d.live, width, height, ok)
        IN  /\ ok => CanCreate(d.live)
            /\ swapchain' = c.sc
            /\ vk_swapchains' = c.live
            /\ sw_op' = "recreate"
            /\ sw_req' = [width |-> width, height |-> height]
            /\ sw_pre' = Held(swapchain)
            /\ sw_calls' = <<SwapchainCall("vkCreateSwapchainKHR", swapchain.swapchain)>>
                           \o destroy_calls(swapchain)
            /\ UNCHANGED <<capabilities, surface_formats, cbvars, pvars, svars, bvars,
                           xvars, kvars>>

vulkan_swapchain_recreate ==
    \E width \in 0..(MaxDim + 1), height \in 0..(MaxDim + 1), ok \in BOOLEAN :
        LET d == destroy(swapchain, vk_swapchains)
            c == create(d.sc, d.live, width, height, ok)
        IN  /\ ok => CanCreate(d.live)
            /\ swapchain' = c.sc
            /\ vk_swapchains' = c.live
            /\ sw_op' = "recreate"
            /\ sw_req' = [width |-> width, height |-> height]
            /\ sw_pre' = Held(swapchain)
            /\ sw_calls' = destroy_calls(swapchain) \o create_calls
            /\ UNCHANGED <<capabilities, surface_formats, cbvars, pvars, svars, bvars,
                           xvars, kvars>>

vulkan_swapchain_destroy ==
    LET d == destroy(swapchain, vk_swapchains)
    IN  /\ swapchain' = d.sc
        /\ vk_swapchains' = d.live
        /\ sw_op' = "destroy"
        /\ sw_req' = [width |-> 0, height |-> 0]
        /\ sw_pre' = Held(swapchain)
        /\ sw_calls' = destroy_calls(swapchain)
        /\ UNCHANGED <<capabilities, surface_formats, cbvars, pvars, svars, bvars,
                           xvars, kvars>>

\* what vkAcquireNextImageKHR can answer
VK_SUCCESS == "VK_SUCCESS"
VK_SUBOPTIMAL_KHR == "VK_SUBOPTIMAL_KHR"
AcquireResults ==
    {VK_SUCCESS, VK_SUBOPTIMAL_KHR, "VK_TIMEOUT", "VK_NOT_READY",
     "VK_ERROR_OUT_OF_DATE_KHR"}

\* the images of a swapchain the driver made for a request of at least
\* image_count images: it may make more of them, up to the maximum of the
\* surface (up to MaxImages + 1 where the surface sets none). create does
\* not ask the driver how many it made.
DriverImageCounts(sc, caps) ==
    sc.image_count ..
        (IF caps.maxImageCount > 0 THEN caps.maxImageCount ELSE MaxImages + 1)

\* vulkan_swapchain_acquire_next_image(context, swapchain, timeout_ns,
\* semaphore, fence, out_image_index): the driver's answer is success,
\* suboptimal, or a failure; on the first two it has written the index of
\* one of its images and the function returns TRUE. A null swapchain handle
\* is no valid argument: the driver may then answer and write anything.
vulkan_swapchain_acquire_next_image ==
    \E result \in AcquireResults, index \in 0..MaxImages :
        LET usable == result \in {VK_SUCCESS, VK_SUBOPTIMAL_KHR}
            live == swapchain.swapchain # VK_NULL_HANDLE
        IN  /\ (live /\ usable) =>
                   \E n \in DriverImageCounts(swapchain, capabilities) : index < n
            /\ (live /\ ~usable) => index = context.image_index
            /\ context' = [context EXCEPT !.image_index = index]
            /\ acquire' = [after |-> sw_op, result |-> result, ret |-> usable]
            /\ sw_op' = "acquire"
            /\ sw_pre' = Held(swapchain)
            /\ sw_calls' = <<SwapchainCall("vkAcquireNextImageKHR", 0)>>
            /\ UNCHANGED <<swapchain, capabilities, surface_formats, vk_swapchains,
                           sw_req, ctx_op, ctx_prev, ctx_ret, ctx_calls, queue_create_infos, graphics_command_buffers,
                           cbvars, pvars, svars, bvars, kvars>>

\* ------------------------------------------------------------------------
\* vulkan_backend.c: vulkan_renderer_backend_initialize, step by step
\* ------------------------------------------------------------------------
VK_LAYER_KHRONOS_validation == "VK_LAYER_KHRONOS_validation"
OTHER_LAYER_NAME == "VK_LAYER_LUNARG_api_dump"
LayerNames == {VK_LAYER_KHRONOS_validation, OTHER_LAYER_NAME}

\* required_validation_layer_names of a diagnostic build
RequiredLayers == {VK_LAYER_KHRONOS_validation}

\* one attempted creation step and whether it succeeded
Step(fn, ok) == [fn |-> fn, ok |-> ok]

StepNames(t) == [i \in 1..Len(t) |-> t[i].fn]

\* the list the layer check reads after the two enumeration calls: the
\* driver's list when both succeed; no entry when the count query fails (the
\* count stays 0); when only the second call fails, the entries of the
\* reserved array are whatever the memory held
SeenLists(count_ok, list_ok) ==
    IF ~count_ok THEN {{}}
    ELSE IF list_ok THEN {available_layers}
    ELSE SUBSET LayerNames

\* a mutant: no required layer is ever found missing
MissingLayerNever(seen) == FALSE

\* the layer check: some required layer is not in the list
MissingLayer(seen) == \E n \in RequiredLayers : n \notin seen

\* initialization returns
Return(v) ==
    /\ boot_pc' = "returned"
    /\ boot_ret' = v

\* the validation layers of a diagnostic build: enumerate, then return FALSE
\* if a required layer is missing
boot_validation_layers ==
    /\ boot_pc = "start"
    /\ IF debug_build
       THEN \E count_ok \in BOOLEAN, list_ok \in BOOLEAN :
            \E seen \in SeenLists(count_ok, list_ok) :
                /\ layers_seen' = seen
                /\ boot_trace' = boot_trace \o
                       <<Step("vkEnumerateInstanceLayerProperties", count_ok /\ list_ok)>>
                /\ IF MissingLayer(seen)
                   THEN Return("FALSE")
                   ELSE boot_pc' = "instance" /\ boot_ret' = boot_ret
       ELSE /\ boot_pc' = "instance"
            /\ UNCHANGED <<layers_seen, boot_trace, boot_ret>>
    /\ UNCHANGED <<debug_build, available_layers, vk_instance, vk_surface,
                   cbvars, pvars, svars, swvars,
                       xvars, kvars>>

\* VK_CHECK(vkCreateInstance(...)): a failure is logged and the function
\* goes on
boot_create_instance ==
    \E ok \in BOOLEAN :
        /\ boot_pc = "instance"
        /\ boot_trace' = boot_trace \o <<Step("vkCreateInstance", ok)>>
        /\ vk_instance' = ok
        /\ boot_pc' = IF debug_build THEN "messenger" ELSE "surface"
        /\ UNCHANGED <<debug_build, available_layers, layers_seen, boot_ret,
                       vk_surface, cbvars, pvars, svars, swvars,
                       xvars, kvars>>

\* the debug messenger of a diagnostic build. The creation function is
\* looked up through the instance; without an instance the lookup may give
\* nothing, and the call through it (or the assertion before it) ends the
\* process. The handle is stored in context.debug_messenger.
boot_create_debug_messenger ==
    \E found \in BOOLEAN, ok \in BOOLEAN :
        /\ boot_pc = "messenger"
        /\ vk_instance => found
        /\ IF found
           THEN /\ boot_trace' = boot_trace \o
                       <<Step("vkCreateDebugUtilsMessengerEXT", ok)>>
                /\ context' = [context EXCEPT !.debug_messenger = ok]
                /\ boot_pc' = "surface"
           ELSE /\ ~ok
                /\ boot_trace' = boot_trace
                /\ context' = context
                /\ boot_pc' = "trapped"
        /\ UNCHANGED <<debug_build, available_layers, layers_seen, boot_ret,
                       vk_instance, vk_surface,
                       cbvars, pvars, svars, swvars,
                       ctx_op, ctx_prev, ctx_ret, ctx_calls, queue_create_infos,
                       acquire, graphics_command_buffers, kvars>>

\* platform_create_vulkan_surface: its failure is fatal. No surface is made
\* without an instance.
boot_create_surface ==
    \E ok \in BOOLEAN :
        /\ boot_pc = "surface"
        /\ ok => vk_instance
        /\ boot_trace' = boot_trace \o <<Step("platform_create_vulkan_surface", ok)>>
        /\ vk_surface' = ok
        /\ IF ok THEN boot_pc' = "device" /\ boot_ret' = boot_ret
                 ELSE Return("FALSE")
        /\ UNCHANGED <<debug_build, available_layers, layers_seen,
                       vk_instance, cbvars, pvars, svars, swvars,
                       xvars, kvars>>

\* vulkan_device_create: the selection, then vkCreateDevice; the failure of
\* either is fatal
boot_create_device ==
    \E ok \in BOOLEAN :
        /\ boot_pc = "device"
        /\ DeviceCreation(ok)
        /\ boot_trace' = boot_trace \o <<Step("vulkan_device_create", ok)>>
        /\ IF ok THEN boot_pc' = "swapchain" /\ boot_ret' = boot_ret
                 ELSE Return("FALSE")
        /\ UNCHANGED <<physical_devices, debug_build, available_layers,
                       layers_seen, vk_instance, vk_surface, context, ctx_op,
                       ctx_prev, ctx_ret, ctx_calls, acquire, graphics_command_buffers, cbvars, pvars, swvars, kvars>>

\* vulkan_swapchain_create(&context, framebuffer_width, framebuffer_height,
\* &context.swapchain): it returns nothing, and initialization goes on. The
\* size asked for is the one the context holds.
boot_create_swapchain ==
    \E ok \in BOOLEAN :
        LET width == context.framebuffer_width
            height == context.framebuffer_height
            c == create(swapchain, vk_swapchains, width, height, ok)
        IN  /\ boot_pc = "swapchain"
            /\ ok => CanCreate(vk_swapchains)
            /\ boot_trace' = boot_trace \o <<Step("vulkan_swapchain_create", ok)>>
            /\ swapchain' = c.sc
            /\ vk_swapchains' = c.live
            /\ sw_op' = "create"
            /\ sw_req' = [width |-> width, height |-> height]
            /\ sw_pre' = Held(swapchain)
            /\ sw_calls' = create_calls
            /\ boot_pc' = "renderpass"
            /\ UNCHANGED <<capabilities, surface_formats, debug_build,
                           available_layers, layers_seen, boot_ret, vk_instance,
                           vk_surface, cbvars, pvars, svars,
                       xvars, kvars>>

\* vulkan_renderpass_create(&context, &context.main_renderpass, ...): it
\* returns nothing; the pass it leaves is READY
boot_create_renderpass ==
    /\ boot_pc = "renderpass"
    /\ boot_trace' = boot_trace \o <<Step("vulkan_renderpass_create", TRUE)>>
    /\ rp_state' = READY
    /\ boot_pc' = "command_buffers"
    /\ UNCHANGED <<rp_pre, rp_ret, cbcore, debug_build, available_layers,
                   layers_seen, boot_ret, vk_instance, vk_surface,
                   pvars, svars, swvars,
                       xvars, kvars>>

\* a struct vulkan_command_buffer after kzero_memory: READY is enumerator 0
ZeroCommandBuffer ==
    [handle |-> VK_NULL_HANDLE, state |-> COMMAND_BUFFER_STATE_READY]

\* the loop of create_command_buffers from buffer i to buffer n: a buffer
\* with a handle is freed; the buffer is zeroed and allocated, hs[i] being
\* the handle the driver gives (VK_NULL_HANDLE when it refuses). live is the
\* driver's set of allocated buffers; valid tells whether the driver can
\* give these handles (it never gives one that is allocated).
RECURSIVE CreateBuffers(_, _, _, _, _)
CreateBuffers(bufs, live, i, n, hs) ==
    IF i > n THEN [bufs |-> bufs, live |-> live, valid |-> TRUE]
    ELSE LET freed == live \ {bufs[i].handle}
             h == hs[i]
         IN  IF h # VK_NULL_HANDLE /\ h \in freed
             THEN [bufs |-> bufs, live |-> live, valid |-> FALSE]
             ELSE CreateBuffers(
                      [bufs EXCEPT ![i] =
                           [handle |-> h,
                            state |-> COMMAND_BUFFER_STATE_NOT_ALLOCATED]],
                      IF h # VK_NULL_HANDLE THEN freed \cup {h} ELSE freed,
                      i + 1, n, hs)

\* create_command_buffers(backend): the array is reserved for
\* swapchain.image_count buffers, each zeroed, if the pointer is null; then
\* the loop runs over image_count buffers. The pool handed to free and to
\* allocate is context.device.graphics_command_pool. The buffer followed by
\* the tracker is the first of the array.
CommandBufferCreation(hs) ==
    LET n == swapchain.image_count
        reserved == IF graphics_command_buffers = <<>>
                    THEN [i \in 1..n |-> ZeroCommandBuffer]
                    ELSE graphics_command_buffers
        r == CreateBuffers(reserved, pool, 1, n, hs)
    IN  /\ n >= 1
        /\ n <= Len(reserved)
        /\ r.valid
        /\ graphics_command_buffers' = r.bufs
        /\ pool' = r.live
        /\ Observe("allocate")
        /\ cb_handle' = r.bufs[1].handle
        /\ cb_state' = r.bufs[1].state
        /\ calls' = (IF cb_handle # VK_NULL_HANDLE
                     THEN <<Call("vkFreeCommandBuffers", cb_handle, TRUE)>>
                     ELSE <<>>)
                    \o <<Call("vkAllocateCommandBuffers", hs[1],
                              hs[1] # VK_NULL_HANDLE)>>

\* create_command_buffers(backend), then return TRUE
boot_create_command_buffers ==
    \E hs \in [1..swapchain.image_count -> Handles \cup {VK_NULL_HANDLE}] :
        /\ boot_pc = "command_buffers"
        /\ boot_trace' = boot_trace \o
               <<Step("create_command_buffers",
                      \A i \in DOMAIN hs : hs[i] # VK_NULL_HANDLE)>>
        /\ CommandBufferCreation(hs)
        /\ Return("TRUE")
        /\ UNCHANGED <<rp_state, rp_ret, debug_build, available_layers,
                       layers_seen, vk_instance, vk_surface,
                       pvars, svars, swvars, context, ctx_op, ctx_prev, ctx_ret,
                       ctx_calls, queue_create_infos, acquire, kvars>>

\* a mutant: the instance is destroyed before the messenger
ShutdownCallsInstanceFirst(surface, messenger) ==
    <<"vulkan_renderpass_destroy", "vulkan_swapchain_destroy", "vulkan_device_destroy">>
    \o (IF surface THEN <<"vkDestroySurfaceKHR">> ELSE <<>>)
    \o <<"vkDestroyInstance">>
    \o (IF messenger THEN <<"vkDestroyDebugUtilsMessengerEXT">> ELSE <<>>)

\* the calls of shutdown that destroy something, in order; surface and
\* messenger tell whether context.surface and context.debug_messenger are set
ShutdownCalls(surface, messenger) ==
    <<"vulkan_renderpass_destroy", "vulkan_swapchain_destroy", "vulkan_device_destroy">>
    \o (IF surface THEN <<"vkDestroySurfaceKHR">> ELSE <<>>)
    \o (IF messenger THEN <<"vkDestroyDebugUtilsMessengerEXT">> ELSE <<>>)
    \o <<"vkDestroyInstance">>

\* vulkan_renderpass_destroy(context, renderpass): the state it leaves
DestroyedRenderpassState == NOT_ALLOCATED

\* the backend is in use: initialization returned TRUE and shutdown has not
\* run
Running == boot_pc = "returned" /\ boot_ret = "TRUE"

\* an entry point of the backend other than initialize ran
Entered(op) ==
    /\ ctx_op' = op
    /\ ctx_prev' = ctx_op

\* vulkan_renderer_backend_shutdown(backend): the render pass (its destroy
\* releases the pass and resets the state to NOT_ALLOCATED), the swapchain,
\* the device, the surface if there is one, the messenger if there is one,
\* the instance. The command buffers are not freed and the messenger handle
\* is not reset.
vulkan_renderer_backend_shutdown ==
    LET d == destroy(swapchain, vk_swapchains)
    IN  /\ Running
        /\ Entered("shutdown")
        /\ ctx_ret' = "none"
        /\ ctx_calls' = ShutdownCalls(vk_surface, context.debug_messenger)
        /\ rp_pre' = rp_state
        /\ rp_state' = DestroyedRenderpassState
        /\ swapchain' = d.sc
        /\ vk_swapchains' = d.live
        /\ sw_op' = "destroy"
        /\ sw_req' = [width |-> 0, height |-> 0]
        /\ sw_pre' = Held(swapchain)
        /\ sw_calls' = destroy_calls(swapchain)
        /\ pre_device' = device
        /\ device' = DestroyedDevice(device)
        /\ vk_surface' = FALSE
        /\ vk_instance' = FALSE
        /\ boot_pc' = "shutdown"
        /\ UNCHANGED <<rp_ret, cbcore, capabilities, surface_formats,
                       physical_devices, sel_done, sel_ret, leaked, debug_build,
                       available_layers, layers_seen, boot_ret, boot_trace,
                       context, queue_create_infos, acquire, graphics_command_buffers, pvars, kvars>>

\* vulkan_renderer_backend_on_resized(backend, width, height): the size and
\* the flag are stored, nothing else
vulkan_renderer_backend_on_resized ==
    \E width \in 0..MaxDim, height \in 0..MaxDim :
        /\ Running
        /\ Entered("on_resized")
        /\ ctx_ret' = "none"
        /\ context' = [context EXCEPT !.framebuffer_width = width,
                                      !.framebuffer_height = height,
                                      !.recreating_swapchain = TRUE]
        /\ UNCHANGED <<ctx_calls, queue_create_infos, acquire, graphics_command_buffers, cbvars, pvars,
                       svars, swvars, bvars, kvars>>

\* vulkan_renderer_backend_begin_frame(backend, delta_time): return TRUE
vulkan_renderer_backend_begin_frame ==
    /\ Running
    /\ Entered("begin_frame")
    /\ ctx_ret' = B8(TRUE)
    /\ UNCHANGED <<context, ctx_calls, queue_create_infos, acquire, graphics_command_buffers, cbvars,
                   pvars, svars, swvars, bvars, kvars>>

\* vulkan_renderer_backend_end_frame(backend, delta_time): return TRUE
vulkan_renderer_backend_end_frame ==
    /\ Running
    /\ Entered("end_frame")
    /\ ctx_ret' = B8(TRUE)
    /\ UNCHANGED <<context, ctx_calls, queue_create_infos, acquire, graphics_command_buffers, cbvars,
                   pvars, svars, swvars, bvars, kvars>>

\* ------------------------------------------------------------------------
\* The inputs of the prober
\* ------------------------------------------------------------------------
FamilyKinds == [flags : SUBSET QueueBits, present : {"yes", "no", "error"}]

FamilyLists(n) == UNION {[1..k -> FamilyKinds] : k \in 0..n}

\* what the driver answers to the surface queries of one accelerator: the
\* first query that fails, if any (no query is made after a failure), and
\* the two counts it reports
SurfaceReports ==
    [fail_at : {"none", "caps", "format_count", "formats", "mode_count", "modes"},
     n_formats : 0..MaxFormats, n_modes : 0..MaxModes]

Report(r) ==
    [caps_ok |-> r.fail_at # "caps",
     format_count_ok |-> r.fail_at # "format_count",
     n_formats |-> r.n_formats,
     formats_ok |-> r.fail_at # "formats",
     mode_count_ok |-> r.fail_at # "mode_count",
     n_modes |-> r.n_modes,
     modes_ok |-> r.fail_at # "modes"]

Requirements ==
    [graphics : BOOLEAN, present : BOOLEAN, compute : BOOLEAN, transfer : BOOLEAN,
     device_extension_names : {"NULL", <<>>, <<VK_KHR_SWAPCHAIN_EXTENSION_NAME>>},
     sampler_anisotropy : BOOLEAN, discrete_gpu : BOOLEAN]

Fam(flags, present) == [flags |-> flags, present |-> present]

\* the queue-family layouts of the accelerators the selector is run on: one
\* family that does everything, a graphics family beside a compute/transfer
\* family, an accelerator without transfer, and one whose only presenting
\* family is a dedicated transfer family
SelectorLayouts ==
    { <<Fam(QueueBits, "yes")>>,
      <<Fam({VK_QUEUE_GRAPHICS_BIT}, "yes"),
        Fam({VK_QUEUE_COMPUTE_BIT, VK_QUEUE_TRANSFER_BIT}, "no")>>,
      <<Fam({VK_QUEUE_GRAPHICS_BIT, VK_QUEUE_COMPUTE_BIT}, "yes")>>,
      <<Fam(QueueBits, "no"), Fam({VK_QUEUE_TRANSFER_BIT}, "yes")>> }

SelectorReports ==
    { [fail_at |-> "none", n_formats |-> 1, n_modes |-> 1],
      [fail_at |-> "none", n_formats |-> 0, n_modes |-> 1],
      [fail_at |-> "mode_count", n_formats |-> 1, n_modes |-> 1] }

\* the accelerators an enumeration can report
PhysicalDevices ==
    [handle : {0}, families : SelectorLayouts, deviceType : {"INTEGRATED"},
     samplerAnisotropy : BOOLEAN,
     extensions : {{}, {VK_KHR_SWAPCHAIN_EXTENSION_NAME}},
     surface : {Report(r) : r \in SelectorReports}]

Enumerations == UNION {[1..k -> PhysicalDevices] : k \in 0..MaxDevices}

\* ------------------------------------------------------------------------
\* The command-buffer tracker as a state machine
\* ------------------------------------------------------------------------
\* a zeroed vulkan_command_buffer (create_command_buffers zeroes each entry)
InitCB ==
    /\ cb_handle = VK_NULL_HANDLE
    /\ cb_state = COMMAND_BUFFER_STATE_READY
    /\ pool = {}
    /\ calls = <<>>
    /\ last_op = "none"
    /\ pre_state = COMMAND_BUFFER_STATE_READY
    /\ pre_handle = VK_NULL_HANDLE
    /\ seq_pos = 0
    /\ seq_handle = VK_NULL_HANDLE
    /\ rp_state = READY
    /\ rp_pre = READY
    /\ rp_ret = FALSE

InitProbeIdle ==
    /\ p_req = [graphics |-> TRUE, present |-> TRUE, compute |-> TRUE,
                transfer |-> TRUE, device_extension_names |-> "NULL",
                sampler_anisotropy |-> TRUE, discrete_gpu |-> FALSE]
    /\ p_dev = [handle |-> 1, families |-> <<>>, deviceType |-> "DISCRETE",
                samplerAnisotropy |-> TRUE, extensions |-> {},
                surface |-> Report([fail_at |-> "none", n_formats |-> 0, n_modes |-> 0])]
    /\ p_surface = TRUE
    /\ p_done = FALSE
    /\ p_res = [pass |-> FALSE, q |-> NoQueueInfo, support |-> ZeroSupport, lost |-> 0,
               held |-> {}]

\* the static context before any selection
InitSelectIdle ==
    /\ physical_devices = <<>>
    /\ device = ZeroDevice
    /\ pre_device = ZeroDevice
    /\ sel_done = FALSE
    /\ sel_ret = FALSE
    /\ leaked = 0

\* the swapchain manager before a device is selected: a zeroed context
InitSwapchainIdle ==
    /\ swapchain = ZeroSwapchain
    /\ capabilities = [currentExtent |-> UndefinedExtent,
                       minImageExtent |-> [width |-> 1, height |-> 1],
                       maxImageExtent |-> [width |-> 1, height |-> 1],
                       minImageCount |-> 1, maxImageCount |-> 0]
    /\ surface_formats = <<SurfaceFormat(VK_FORMAT_B8G8R8A8_SRGB)>>
    /\ vk_swapchains = {}
    /\ sw_op = "none"
    /\ sw_req = [width |-> 0, height |-> 0]
    /\ sw_pre = Held(ZeroSwapchain)
    /\ sw_calls = <<>>

\* initialization is not followed: it is at none of its steps
InitBootIdle ==
    /\ debug_build = FALSE
    /\ available_layers = {}
    /\ layers_seen = {}
    /\ boot_pc = "idle"
    /\ boot_ret = "none"
    /\ boot_trace = <<>>
    /\ vk_instance = FALSE
    /\ vk_surface = FALSE

\* the zeroed static context, before any operation of the backend
ZeroContext ==
    [framebuffer_width |-> 0, framebuffer_height |-> 0,
     recreating_swapchain |-> FALSE, image_index |-> 0,
     debug_messenger |-> FALSE]

NoAcquire == [after |-> "none", result |-> "none", ret |-> FALSE]

InitContextIdle ==
    /\ context = ZeroContext
    /\ ctx_op = "none"
    /\ ctx_prev = "none"
    /\ ctx_ret = "none"
    /\ ctx_calls = <<>>
    /\ queue_create_infos = <<>>
    /\ acquire = NoAcquire
    /\ graphics_command_buffers = <<>>

\* a zeroed struct clock at the origin of the platform's time
ZeroClock == [start_time |-> 0, elapsed |-> 0]

InitClockIdle ==
    /\ clock = ZeroClock
    /\ now = 0
    /\ clock_op = "none"
    /\ clock_running = FALSE
    /\ clock_pre = ZeroClock

Init ==
    /\ InitCB /\ InitProbeIdle /\ InitSelectIdle /\ InitSwapchainIdle
    /\ InitBootIdle /\ InitContextIdle /\ InitClockIdle

SingleFamilyLayouts == FamilyLists(1)

\* the accelerator the prober's inputs are varied around: it meets the
\* selector's requirements whatever its families are worth
GoodDevice(fams) ==
    [handle |-> 1, families |-> fams, deviceType |-> "INTEGRATED",
     samplerAnisotropy |-> TRUE,
     extensions |-> {VK_KHR_SWAPCHAIN_EXTENSION_NAME},
     surface |-> Report([fail_at |-> "none", n_formats |-> 1, n_modes |-> 1])]

\* every list of up to MaxFamilies families, under each choice of required
\* families, with and without a surface
InitProbeFamilies ==
    /\ p_req \in {[SelectorRequirements EXCEPT !.graphics = f[1], !.present = f[2],
                                               !.compute = f[3], !.transfer = f[4]]
                    : f \in [1..4 -> BOOLEAN]}
    /\ p_dev \in {GoodDevice(fams) : fams \in FamilyLists(MaxFamilies)}
    /\ p_surface \in BOOLEAN

\* every requirements descriptor against every accelerator of at most one
\* family (which already gives each combination of found and missing
\* families), every extension list and every answer to the surface queries
InitProbeDevice ==
    /\ p_req \in Requirements
    /\ p_dev \in [handle : {1}, families : SingleFamilyLayouts,
                  deviceType : {"DISCRETE", "INTEGRATED"},
                  samplerAnisotropy : BOOLEAN,
                  extensions : SUBSET ExtNames,
                  surface : {Report(r) : r \in SurfaceReports}]
    /\ p_surface = TRUE

InitProbe ==
    /\ InitCB
    /\ InitSelectIdle
    /\ InitSwapchainIdle
    /\ InitBootIdle
    /\ InitContextIdle
    /\ InitClockIdle
    /\ InitProbeFamilies \/ InitProbeDevice
    /\ p_done = FALSE
    /\ p_res = [pass |-> FALSE, q |-> NoQueueInfo, support |-> ZeroSupport, lost |-> 0,
               held |-> {}]

Probe ==
    /\ ~p_done
    /\ p_done' = TRUE
    /\ p_res' = physical_device_meets_requirements(p_dev, p_surface, p_req, ZeroSupport)
    /\ UNCHANGED <<p_req, p_dev, p_surface, cbvars, svars, swvars, bvars, xvars, kvars>>

NextProbe == Probe

SpecProbe == InitProbe /\ [][NextProbe]_vars

InitSelect ==
    /\ InitCB
    /\ InitProbeIdle
    /\ InitSwapchainIdle
    /\ InitBootIdle
    /\ InitContextIdle
    /\ InitClockIdle
    /\ physical_devices \in Enumerations
    /\ device = ZeroDevice
    /\ pre_device = ZeroDevice
    /\ sel_done = FALSE
    /\ sel_ret = FALSE
    /\ leaked = 0

NextSelect == Select

SpecSelect == InitSelect /\ [][NextSelect]_vars

\* ------------------------------------------------------------------------
\* The logical device builder as a state machine
\* ------------------------------------------------------------------------
\* the accelerators the builder is run on: each queue-family layout, with
\* and without anisotropic sampling, the surface queries answered in full
DeviceKinds ==
    {d \in PhysicalDevices :
        /\ d.extensions = {VK_KHR_SWAPCHAIN_EXTENSION_NAME}
        /\ d.surface.mode_count_ok
        /\ d.surface.n_formats > 0}

DeviceEnumerations == UNION {[1..k -> DeviceKinds] : k \in 0..MaxDevices}

InitDevice ==
    /\ InitCB
    /\ InitProbeIdle
    /\ InitSwapchainIdle
    /\ InitBootIdle
    /\ InitContextIdle
    /\ InitClockIdle
    /\ physical_devices \in DeviceEnumerations
    /\ device = ZeroDevice
    /\ pre_device = ZeroDevice
    /\ sel_done = FALSE
    /\ sel_ret = FALSE
    /\ leaked = 0

NextDevice ==
    \/ vulkan_device_create
    \/ vulkan_device_destroy
    \/ vulkan_device_detect_depth_format

SpecDevice == InitDevice /\ [][NextDevice]_vars

\* ------------------------------------------------------------------------
\* clock.c: a clock over the platform's absolute time
\* ------------------------------------------------------------------------
\* platform_get_absolute_time(): the time of the platform's timer, which
\* counts from the origin the platform set and is 0 there
platform_get_absolute_time == now

\* a mutant: the time of the start is not subtracted
ElapsedSinceOrigin(c, t) ==
    IF c.start_time # 0 THEN [c EXCEPT !.elapsed = t] ELSE c

\* the clock after clock_update at time t
Updated(c, t) ==
    IF c.start_time # 0 THEN [c EXCEPT !.elapsed = t - c.start_time] ELSE c

clock_update ==
    /\ clock' = Updated(clock, platform_get_absolute_time)
    /\ clock_op' = "clock_update"
    /\ clock_pre' = clock
    /\ UNCHANGED <<now, clock_running, cbvars, pvars, svars, swvars, bvars, xvars>>

clock_start ==
    /\ clock' = [start_time |-> platform_get_absolute_time, elapsed |-> 0]
    /\ clock_op' = "clock_start"
    /\ clock_pre' = clock
    /\ clock_running' = TRUE
    /\ UNCHANGED <<now, cbvars, pvars, svars, swvars, bvars, xvars>>

clock_stop ==
    /\ clock' = [clock EXCEPT !.start_time = 0]
    /\ clock_op' = "clock_stop"
    /\ clock_pre' = clock
    /\ clock_running' = FALSE
    /\ UNCHANGED <<now, cbvars, pvars, svars, swvars, bvars, xvars>>

\* the platform's timer advances between two operations
TimePasses ==
    /\ now < MaxTime
    /\ now' = now + 1
    /\ clock_op' = "none"
    /\ UNCHANGED <<clock, clock_running, clock_pre, cbvars, pvars, svars, swvars,
                   bvars, xvars>>

InitClock ==
    /\ InitCB
    /\ InitProbeIdle
    /\ InitSelectIdle
    /\ InitSwapchainIdle
    /\ InitBootIdle
    /\ InitContextIdle
    /\ InitClockIdle

NextClock ==
    \/ clock_update
    \/ clock_start
    \/ clock_stop
    \/ TimePasses

SpecClock == InitClock /\ [][NextClock]_vars

\* ------------------------------------------------------------------------
\* The swapchain manager as a state machine
\* ------------------------------------------------------------------------
Extents == [width : 1..MaxDim, height : 1..MaxDim]

Within(e, lo, hi) ==
    /\ lo.width <= e.width /\ e.width <= hi.width
    /\ lo.height <= e.height /\ e.height <= hi.height

\* what vkGetPhysicalDeviceSurfaceCapabilitiesKHR can report: the limits are
\* ordered, a current extent lies within them, and at least one image is
\* asked for; a maximum of 0 images means there is no maximum
SurfaceCapabilities ==
    {c \in [currentExtent : Extents \cup {UndefinedExtent},
            minImageExtent : Extents, maxImageExtent : Extents,
            minImageCount : 1..MaxImages, maxImageCount : 0..MaxImages] :
        /\ Within(c.minImageExtent, c.minImageExtent, c.maxImageExtent)
        /\ c.currentExtent # UndefinedExtent
               => Within(c.currentExtent, c.minImageExtent, c.maxImageExtent)
        /\ c.maxImageCount > 0 => c.minImageCount <= c.maxImageCount}

\* the format lists of a selected device: never empty
SurfaceFormatLists ==
    { <<SurfaceFormat(VK_FORMAT_R8G8B8A8_UNORM)>>,
      <<SurfaceFormat(VK_FORMAT_R8G8B8A8_UNORM), SurfaceFormat(VK_FORMAT_B8G8R8A8_SRGB)>> }

\* every choice of extent limits and current extent, for a surface that
\* asks for one image at least and sets no maximum
InitExtentLimits ==
    /\ capabilities \in {c \in SurfaceCapabilities :
                             c.minImageCount = 1 /\ c.maxImageCount = 0}
    /\ surface_formats = <<SurfaceFormat(VK_FORMAT_B8G8R8A8_SRGB)>>

\* every choice of image counts and every format list, for a surface
\* without a size of its own and with the widest limits
InitImageCounts ==
    /\ capabilities \in {c \in SurfaceCapabilities :
                             /\ c.currentExtent = UndefinedExtent
                             /\ c.minImageExtent = [width |-> 1, height |-> 1]
                             /\ c.maxImageExtent = [width |-> MaxDim, height |-> MaxDim]}
    /\ surface_formats \in SurfaceFormatLists

\* a selected device and a swapchain struct of the zeroed static context
InitSwapchain ==
    /\ InitCB
    /\ InitProbeIdle
    /\ InitSelectIdle
    /\ InitBootIdle
    /\ InitContextIdle
    /\ InitClockIdle
    /\ swapchain = ZeroSwapchain
    /\ InitExtentLimits \/ InitImageCounts
    /\ vk_swapchains = {}
    /\ sw_op = "none"
    /\ sw_req = [width |-> 0, height |-> 0]
    /\ sw_pre = Held(ZeroSwapchain)
    /\ sw_calls = <<>>

NextSwapchain ==
    \/ vulkan_swapchain_create
    \/ vulkan_swapchain_recreate
    \/ vulkan_swapchain_destroy

SpecSwapchain == InitSwapchain /\ [][NextSwapchain]_vars

\* the swapchain structs destroy can be handed: each of the view array, the
\* handle and the image array held or not, for every image count
HeldSwapchains ==
    {[ZeroSwapchain EXCEPT !.swapchain = h, !.image_count = n,
                           !.images = im, !.image_views = iv] :
        h \in {VK_NULL_HANDLE, 1}, n \in 0..(MaxImages + 1),
        im \in BOOLEAN, iv \in BOOLEAN}

\* a selected device whose surface has no size of its own, and a swapchain
\* struct holding any of its resources
InitTeardown ==
    /\ InitCB
    /\ InitProbeIdle
    /\ InitSelectIdle
    /\ InitBootIdle
    /\ InitContextIdle
    /\ InitClockIdle
    /\ swapchain \in HeldSwapchains
    /\ capabilities \in {c \in SurfaceCapabilities :
                             /\ c.currentExtent = UndefinedExtent
                             /\ c.minImageExtent = [width |-> 1, height |-> 1]
                             /\ c.maxImageExtent = [width |-> MaxDim, height |-> MaxDim]
                             /\ c.maxImageCount = 0}
    /\ surface_formats \in SurfaceFormatLists
    /\ vk_swapchains = {swapchain.swapchain} \ {VK_NULL_HANDLE}
    /\ sw_op = "none"
    /\ sw_req = [width |-> 0, height |-> 0]
    /\ sw_pre = Held(swapchain)
    /\ sw_calls = <<>>

NextTeardown ==
    \/ vulkan_swapchain_recreate
    \/ vulkan_swapchain_destroy

SpecTeardown == InitTeardown /\ [][NextTeardown]_vars

\* ------------------------------------------------------------------------
\* The swapchain manager with image acquisition
\* ------------------------------------------------------------------------
\* a surface without a size of its own and with the narrowest limits, under
\* every choice of image counts
InitAcquire ==
    /\ InitCB
    /\ InitProbeIdle
    /\ InitSelectIdle
    /\ InitBootIdle
    /\ InitContextIdle
    /\ InitClockIdle
    /\ swapchain = ZeroSwapchain
    /\ capabilities \in {c \in SurfaceCapabilities :
                             /\ c.currentExtent = UndefinedExtent
                             /\ c.minImageExtent = [width |-> 1, height |-> 1]
                             /\ c.maxImageExtent = [width |-> 1, height |-> 1]}
    /\ surface_formats = <<SurfaceFormat(VK_FORMAT_B8G8R8A8_SRGB)>>
    /\ vk_swapchains = {}
    /\ sw_op = "none"
    /\ sw_req = [width |-> 0, height |-> 0]
    /\ sw_pre = Held(ZeroSwapchain)
    /\ sw_calls = <<>>

\* Recreate on the zeroed swapchain is the first creation
NextAcquire ==
    \/ vulkan_swapchain_recreate
    \/ vulkan_swapchain_destroy
    \/ vulkan_swapchain_acquire_next_image

SpecAcquire == InitAcquire /\ [][NextAcquire]_vars

\* ------------------------------------------------------------------------
\* Initialization as a state machine
\* ------------------------------------------------------------------------
\* an accelerator that passes the selector's requirements, and one that
\* lacks anisotropic sampling
BootDevice(anisotropy) ==
    [handle |-> 0, families |-> <<Fam(QueueBits, "yes")>>,
     deviceType |-> "INTEGRATED", samplerAnisotropy |-> anisotropy,
     extensions |-> {VK_KHR_SWAPCHAIN_EXTENSION_NAME},
     surface |-> Report([fail_at |-> "none", n_formats |-> 1, n_modes |-> 1])]

BootEnumerations ==
    { <<>>, <<BootDevice(FALSE)>>, <<BootDevice(TRUE)>>,
      <<BootDevice(FALSE), BootDevice(TRUE)>> }

\* the static context as the program starts, in either build, with every
\* list of layers and each enumeration
InitBoot ==
    /\ InitCB
    /\ InitProbeIdle
    /\ InitSwapchainIdle
    /\ InitContextIdle
    /\ InitClockIdle
    /\ physical_devices \in BootEnumerations
    /\ device = ZeroDevice
    /\ pre_device = ZeroDevice
    /\ sel_done = FALSE
    /\ sel_ret = FALSE
    /\ leaked = 0
    /\ debug_build \in BOOLEAN
    /\ available_layers \in SUBSET LayerNames
    /\ layers_seen = {}
    /\ boot_pc = "start"
    /\ boot_ret = "none"
    /\ boot_trace = <<>>
    /\ vk_instance = FALSE
    /\ vk_surface = FALSE

NextBoot ==
    \/ boot_validation_layers
    \/ boot_create_instance
    \/ boot_create_debug_messenger
    \/ boot_create_surface
    \/ boot_create_device
    \/ boot_create_swapchain
    \/ boot_create_renderpass
    \/ boot_create_command_buffers

SpecBoot == InitBoot /\ [][NextBoot]_vars

\* the backend from initialization to shutdown
NextBackend ==
    \/ boot_validation_layers
    \/ boot_create_instance
    \/ boot_create_debug_messenger
    \/ boot_create_surface
    \/ boot_create_device
    \/ boot_create_swapchain
    \/ boot_create_renderpass
    \/ boot_create_command_buffers
    \/ vulkan_renderer_backend_on_resized
    \/ vulkan_renderer_backend_begin_frame
    \/ vulkan_renderer_backend_end_frame
    \/ vulkan_renderer_backend_shutdown

SpecBackend == InitBoot /\ [][NextBackend]_vars

Next ==
    \/ vulkan_command_buffer_allocate
    \/ command_buffer_free
    \/ command_buffer_begin
    \/ vulkan_command_buffer_end
    \/ vulkan_command_buffer_update_submitted
    \/ vulkan_command_buffer_reset
    \/ vulkan_command_buffer_allocate_and_begin_single_use
    \/ vulkan_command_buffer_end_and_free_single_use
    \/ vulkan_renderpass_begin
    \/ vulkan_renderpass_end

Spec == Init /\ [][Next]_vars

\* ------------------------------------------------------------------------
\* Properties of the command-buffer tracker (specification Spec)
\* ------------------------------------------------------------------------
\* the last operation was refused: it called nothing and changed nothing
Rejected ==
    /\ calls = <<>>
    /\ cb_state = pre_state
    /\ cb_handle = pre_handle

\* C1: Begin is accepted only from READY; from any other state it is refused
\* and the buffer does not become RECORDING.
C1_BeginOnlyFromReady ==
    (last_op = "begin" /\ pre_state # COMMAND_BUFFER_STATE_READY)
        => (Rejected /\ cb_state # COMMAND_BUFFER_STATE_RECORDING)

\* C2: End is accepted only from RECORDING; a second End, or an End on a
\* buffer never begun, is refused and leaves the state as it was.
C2_EndOnlyFromRecording ==
    (last_op = "end" /\ pre_state # COMMAND_BUFFER_STATE_RECORDING) => Rejected

\* C3: Reset is accepted only from READY or SUBMITTED; from RECORDING,
\* IN_RENDER_PASS or NOT_ALLOCATED it is refused and the state is not set
\* to READY.
C3_ResetOnlyAfterEndOrSubmit ==
    (/\ last_op = "reset"
     /\ pre_state \notin {COMMAND_BUFFER_STATE_READY, COMMAND_BUFFER_STATE_SUBMITTED})
        => (Rejected /\ cb_state # COMMAND_BUFFER_STATE_READY)

\* C4: after an Allocate whose driver call succeeded the state is READY.
C4_AllocatedIsReady ==
    (last_op = "allocate" /\ calls[1].ok)
        => cb_state = COMMAND_BUFFER_STATE_READY

\* C5: the single-use end-and-free runs End, Free, the submit to the
\* graphics queue and the queue-wait-idle, in this order, and the wait is
\* the last thing it does before it returns.
C5_EndFreeSubmitWait ==
    last_op = "end_and_free_single_use"
        => CallNames(calls) = <<"vkEndCommandBuffer", "command_buffer_free",
                                "vkQueueSubmit", "vkQueueWaitIdle">>

\* a recording single-use buffer with a live handle was ended and freed, and
\* the driver refused the submit
C5_Witness ==
    /\ last_op = "end_and_free_single_use"
    /\ pre_state = COMMAND_BUFFER_STATE_RECORDING
    /\ pre_handle # VK_NULL_HANDLE
    /\ Len(calls) >= 3
    /\ ~calls[3].ok

\* C16: Free on a buffer with a live handle, whatever its state, releases
\* the handle to the driver, sets the handle to null and the state to
\* NOT_ALLOCATED; Free on a buffer whose handle is null changes neither the
\* handle nor the state.
C16_FreeReleasesLiveHandleOnly ==
    last_op = "free" =>
        IF pre_handle # VK_NULL_HANDLE
        THEN /\ CallNames(calls) = <<"vkFreeCommandBuffers">>
             /\ calls[1].h = pre_handle
             /\ pre_handle \notin pool
             /\ cb_handle = VK_NULL_HANDLE
             /\ cb_state = COMMAND_BUFFER_STATE_NOT_ALLOCATED
        ELSE Rejected

\* a submitted buffer with a live handle was freed
C16_Witness ==
    /\ last_op = "free"
    /\ pre_handle # VK_NULL_HANDLE
    /\ pre_state = COMMAND_BUFFER_STATE_SUBMITTED
    /\ cb_state = COMMAND_BUFFER_STATE_NOT_ALLOCATED

\* C17: on an allocated buffer, Begin, End, MarkSubmitted, Reset run in this
\* order leave the states RECORDING, READY, SUBMITTED, READY, the handle
\* being the one the round started with; the last state is READY, from
\* which Begin is legal, and this holds round after round.
C17_FrameCycle ==
    seq_pos > 0 =>
        /\ cb_handle = seq_handle
        /\ cb_handle # VK_NULL_HANDLE
        /\ cb_state = CASE seq_pos % 4 = 1 -> COMMAND_BUFFER_STATE_RECORDING
                        [] seq_pos % 4 = 2 -> COMMAND_BUFFER_STATE_READY
                        [] seq_pos % 4 = 3 -> COMMAND_BUFFER_STATE_SUBMITTED
                        [] OTHER -> COMMAND_BUFFER_STATE_READY

\* MaxCycles rounds were run in a row on the same handle
C17_Witness ==
    /\ seq_pos = 4 * MaxCycles
    /\ last_op = "reset"
    /\ cb_handle = seq_handle
    /\ cb_state = COMMAND_BUFFER_STATE_READY

\* the last render-pass operation was refused: it returned failure and
\* changed neither state
RenderPassRefused ==
    /\ ~rp_ret
    /\ rp_state = rp_pre
    /\ cb_state = pre_state

\* C18: the render pass and the command buffer move in lockstep: Begin
\* succeeds only while the command buffer is RECORDING and then sets both to
\* IN_RENDER_PASS; End succeeds only from IN_RENDER_PASS and then sets both
\* to RECORDING_ENDED; a Begin or an End attempted when the other machine is
\* out of step changes neither state.
C18_RenderPassLockstep ==
    /\ last_op = "renderpass_begin" =>
          IF pre_state = COMMAND_BUFFER_STATE_RECORDING
          THEN /\ rp_ret
               /\ rp_state = IN_RENDER_PASS
               /\ cb_state = COMMAND_BUFFER_STATE_IN_RENDER_PASS
          ELSE RenderPassRefused
    /\ last_op = "renderpass_end" =>
          IF /\ rp_pre = IN_RENDER_PASS
             /\ pre_state = COMMAND_BUFFER_STATE_IN_RENDER_PASS
          THEN /\ rp_ret
               /\ rp_state = RECORDING_ENDED
               /\ cb_state = COMMAND_BUFFER_STATE_RECORDING_ENDED
          ELSE RenderPassRefused

\* an End was refused because the command buffer had left the pass on its
\* own: the pass is still IN_RENDER_PASS and the buffer still READY
C18_Witness ==
    /\ last_op = "renderpass_end"
    /\ rp_pre = IN_RENDER_PASS
    /\ pre_state = COMMAND_BUFFER_STATE_READY
    /\ ~rp_ret
    /\ rp_state = IN_RENDER_PASS
    /\ cb_state = COMMAND_BUFFER_STATE_READY

\* ------------------------------------------------------------------------
\* Properties of the device selector (specification SpecSelect)
\* ------------------------------------------------------------------------
\* the verdict of the prober on the candidate at position i
Probed(i) ==
    physical_device_meets_requirements(
        Candidate(physical_devices, i), TRUE, SelectorRequirements, ZeroSupport)

Passing == {i \in 1..Len(physical_devices) : Probed(i).pass}

\* C6: the selector selects the lowest-positioned candidate that passes the
\* prober, and caches its handle and its graphics, present and transfer
\* queue indices in the device.
C6_FirstPassingSelected ==
    (sel_done /\ Passing # {}) =>
        LET m == CHOOSE i \in Passing : \A j \in Passing : i <= j
        IN  /\ sel_ret
            /\ device.physical_device = m
            /\ device.graphics_queue_index = Probed(m).q.graphics
            /\ device.present_queue_index = Probed(m).q.present
            /\ device.transfer_queue_index = Probed(m).q.transfer

\* a rejected candidate is followed by two passing ones of different layouts,
\* and the first of these two was selected
C6_Witness ==
    /\ sel_done
    /\ Len(physical_devices) >= 2
    /\ \E i \in Passing, j \in Passing :
          /\ i < j
          /\ Probed(i).q # Probed(j).q
          /\ device.physical_device = i
          /\ device.transfer_queue_index = 1

\* C7: when no candidate passes (the empty enumeration included), selection
\* fails and every field of the device, the cached swapchain support info
\* included, is what it was before the call.
C7_FailureLeavesDeviceUnchanged ==
    (sel_done /\ Passing = {}) => (~sel_ret /\ device = pre_device)

\* ------------------------------------------------------------------------
\* Properties of the capability prober (specification SpecProbe)
\* ------------------------------------------------------------------------
Families == p_dev.families

\* 0-based indices of the families that support transfer
TransferCapable ==
    {i \in 0..(Len(Families) - 1) : VK_QUEUE_TRANSFER_BIT \in Families[i + 1].flags}

\* the prober got as far as its queue-family loop
Scanned ==
    /\ p_done
    /\ ~(p_req.discrete_gpu /\ p_dev.deviceType # "DISCRETE")

\* C8: when transfer is required and some family supports transfer, the
\* transfer family the prober chooses supports transfer and no
\* transfer-capable family has a lower specialization score.
C8_TransferHasMinimumScore ==
    (Scanned /\ p_req.transfer /\ TransferCapable # {}) =>
        /\ p_res.q.transfer \in TransferCapable
        /\ \A j \in TransferCapable :
              Score(Families[p_res.q.transfer + 1]) <= Score(Families[j + 1])

\* a shared family comes first and a dedicated transfer family second, and
\* the dedicated one is chosen
C8_Witness ==
    /\ Scanned /\ p_req.transfer
    /\ Len(Families) = 2
    /\ Score(Families[1]) = 3
    /\ Families[2].flags = {VK_QUEUE_TRANSFER_BIT}
    /\ p_res.q.transfer = 1

\* C9: among the transfer-capable families of lowest score, the prober
\* chooses the one of lowest index.
C9_TieGoesToLowestIndex ==
    (Scanned /\ TransferCapable # {}) =>
        \A j \in TransferCapable :
            (\A k \in TransferCapable : Score(Families[j + 1]) <= Score(Families[k + 1]))
                => p_res.q.transfer <= j

\* what the claim's conditions say of the inputs
HasBit(b) == \E i \in 1..Len(Families) : b \in Families[i].flags

PresentSupported ==
    p_surface /\ \E i \in 1..Len(Families) : Families[i].present = "yes"

RequiredFamiliesFound ==
    /\ p_req.graphics => HasBit(VK_QUEUE_GRAPHICS_BIT)
    /\ p_req.present => PresentSupported
    /\ p_req.compute => HasBit(VK_QUEUE_COMPUTE_BIT)
    /\ p_req.transfer => HasBit(VK_QUEUE_TRANSFER_BIT)

SupportListsNonEmpty ==
    p_dev.surface.n_formats >= 1 /\ p_dev.surface.n_modes >= 1

SurfaceQueriesSucceed ==
    /\ p_dev.surface.caps_ok
    /\ p_dev.surface.format_count_ok /\ p_dev.surface.formats_ok
    /\ p_dev.surface.mode_count_ok /\ p_dev.surface.modes_ok

RequiredExtensionsPresent ==
    \/ p_req.device_extension_names = "NULL"
    \/ \A k \in 1..Len(p_req.device_extension_names) :
           p_req.device_extension_names[k] \in p_dev.extensions

AnisotropyMet == p_req.sampler_anisotropy => p_dev.samplerAnisotropy

DiscreteMet == p_req.discrete_gpu => p_dev.deviceType = "DISCRETE"

\* C10 as stated: the prober passes a candidate if and only if every
\* required family was found, both support lists are non-empty, every
\* required extension is present, anisotropy is supported when required and
\* the accelerator is discrete when that is required.
C10_PassIffRequirementsMet ==
    p_done =>
        (p_res.pass <=> /\ RequiredFamiliesFound
                        /\ SupportListsNonEmpty
                        /\ RequiredExtensionsPresent
                        /\ AnisotropyMet
                        /\ DiscreteMet)

\* C10 amended: the prober passes a candidate if and only if, besides the
\* conditions above, the accelerator has at least one queue family, the
\* surface queries all succeed, and, when a list of required extensions is
\* given, the accelerator reports at least one extension.
C10_PassIffAmended ==
    p_done =>
        (p_res.pass <=> /\ Len(Families) >= 1
                        /\ RequiredFamiliesFound
                        /\ SurfaceQueriesSucceed
                        /\ SupportListsNonEmpty
                        /\ RequiredExtensionsPresent
                        /\ p_req.device_extension_names # "NULL"
                               => p_dev.extensions # {}
                        /\ AnisotropyMet
                        /\ DiscreteMet)

\* a discrete accelerator passes a descriptor that requires everything
C10_Witness ==
    /\ p_done /\ p_res.pass
    /\ p_req.graphics /\ p_req.present /\ p_req.compute /\ p_req.transfer
    /\ p_req.sampler_anisotropy /\ p_req.discrete_gpu
    /\ p_req.device_extension_names = <<VK_KHR_SWAPCHAIN_EXTENSION_NAME>>
    /\ p_dev.extensions = ExtNames

\* 0-based indices of the families whose present-support query failed
PresentQueryFailed ==
    {i \in 0..(Len(Families) - 1) : Families[i + 1].present = "error"}

\* the index the loop leaves for a capability that the families of S have:
\* the last of them, or "not found"
LastOf(S) == IF S = {} THEN NotFound ELSE CHOOSE i \in S : \A j \in S : j <= i

FamiliesWith(b) == {i \in 0..(Len(Families) - 1) : b \in Families[i + 1].flags}

PresentingFamilies ==
    {i \in 0..(Len(Families) - 1) : Families[i + 1].present = "yes"}

\* C12: a failed present-support query on a family does not abort the
\* probe: the graphics, compute and transfer capabilities of that family are
\* recorded like those of any other, the later families are examined, and
\* the candidate passes when another family presents and the other
\* requirements are met.
C12_FailedPresentQueryTolerated ==
    (Scanned /\ p_req.present /\ p_surface /\ PresentQueryFailed # {}) =>
        /\ p_res.q.graphics = LastOf(FamiliesWith(VK_QUEUE_GRAPHICS_BIT))
        /\ p_res.q.compute = LastOf(FamiliesWith(VK_QUEUE_COMPUTE_BIT))
        /\ (p_res.q.transfer = NotFound) <=> (TransferCapable = {})
        /\ p_res.q.transfer \in TransferCapable \cup {NotFound}
        /\ p_res.q.present = LastOf(PresentingFamilies)
        /\ (/\ RequiredFamiliesFound
            /\ SurfaceQueriesSucceed /\ SupportListsNonEmpty
            /\ RequiredExtensionsPresent
            /\ p_req.device_extension_names # "NULL" => p_dev.extensions # {}
            /\ AnisotropyMet /\ DiscreteMet) => p_res.pass

\* the present query fails on the only graphics family, which comes first;
\* the second family presents, and the candidate passes with the graphics
\* index of the first and the present index of the second
C12_Witness ==
    /\ p_done /\ p_res.pass
    /\ p_req.graphics /\ p_req.present /\ p_surface
    /\ Len(Families) = 2
    /\ Families[1].present = "error"
    /\ VK_QUEUE_GRAPHICS_BIT \in Families[1].flags
    /\ VK_QUEUE_GRAPHICS_BIT \notin Families[2].flags
    /\ p_res.q.graphics = 0
    /\ p_res.q.present = 1

\* ------------------------------------------------------------------------
\* The prober inside the selector's loop (specification SpecSelect)
\* ------------------------------------------------------------------------
\* the candidate the selector probed last: the first that passes, or the
\* last of the enumeration when none does
LastProbed ==
    IF Passing # {} THEN CHOOSE i \in Passing : \A j \in Passing : i <= j
    ELSE Len(physical_devices)

\* the driver reports no surface format, or no present mode, for candidate i
EmptySupportList(i) ==
    physical_devices[i].surface.n_formats = 0 \/ physical_devices[i].surface.n_modes = 0

\* C11: an accelerator whose surface-format list or present-mode list is
\* empty is rejected by the prober whatever its queue families are, and
\* after that rejection the support info holds no list: both pointers are
\* null and both counts are 0.
C11_EmptyListRejectedAndReleased ==
    (sel_done /\ Len(physical_devices) >= 1 /\ EmptySupportList(LastProbed)) =>
        /\ ~sel_ret
        /\ ~device.swapchain_support.formats
        /\ ~device.swapchain_support.present_modes
        /\ device.swapchain_support.format_count = 0
        /\ device.swapchain_support.present_mode_count = 0

\* ------------------------------------------------------------------------
\* Properties of the swapchain manager (specification SpecSwapchain)
\* ------------------------------------------------------------------------
\* create ran last, by itself or as the second half of a recreate
CreateRan == sw_op \in {"create", "recreate"}

\* v if it lies between lo and hi, or else the bound nearest to it
Nearest(v, lo, hi) == IF v < lo THEN lo ELSE IF v > hi THEN hi ELSE v

\* the requested size with each component brought into the surface limits
RequestWithinLimits ==
    [width |-> Nearest(sw_req.width, capabilities.minImageExtent.width,
                       capabilities.maxImageExtent.width),
     height |-> Nearest(sw_req.height, capabilities.minImageExtent.height,
                        capabilities.maxImageExtent.height)]

\* C19 as stated: for every requested width and height, Create yields the
\* request when it lies within the surface limits componentwise, and else
\* each component clamped to the nearest limit.
C19_ExtentIsRequestClamped ==
    CreateRan =>
        /\ Within(sw_req, capabilities.minImageExtent, capabilities.maxImageExtent)
               => swapchain.extent = sw_req
        /\ swapchain.extent = RequestWithinLimits

\* C19 amended: that holds when the surface reports no current extent; when
\* it reports one, Create yields the current extent whatever was requested.
C19_ExtentAmended ==
    CreateRan =>
        IF capabilities.currentExtent.width = UINT32_MAX
        THEN /\ Within(sw_req, capabilities.minImageExtent,
                       capabilities.maxImageExtent)
                    => swapchain.extent = sw_req
             /\ swapchain.extent = RequestWithinLimits
        ELSE swapchain.extent = capabilities.currentExtent

\* on a surface without a current extent, a request too wide but of a
\* height within the limits was clamped in its width only
C19_Witness ==
    /\ sw_op = "create"
    /\ capabilities.currentExtent = UndefinedExtent
    /\ capabilities.minImageExtent.width < capabilities.maxImageExtent.width
    /\ sw_req.width > capabilities.maxImageExtent.width
    /\ sw_req.height >= capabilities.minImageExtent.height
    /\ sw_req.height <= capabilities.maxImageExtent.height
    /\ swapchain.extent = [width |-> capabilities.maxImageExtent.width,
                           height |-> sw_req.height]

ImageCountWithinLimits ==
    /\ swapchain.image_count >= capabilities.minImageCount
    /\ capabilities.maxImageCount > 0
           => swapchain.image_count <= capabilities.maxImageCount

\* C20 as stated: once the swapchain has been created, after Create, after
\* Recreate and after Destroy alike, image_count is at least minImageCount
\* and, when maxImageCount > 0, at most maxImageCount.
C20_ImageCountAlwaysWithinLimits ==
    sw_op # "none" => ImageCountWithinLimits

\* C20 amended: image_count is within these limits after Create and after
\* Recreate; after Destroy it is 0.
C20_ImageCountAmended ==
    /\ CreateRan => ImageCountWithinLimits
    /\ sw_op = "destroy" => swapchain.image_count = 0

\* a recreate on a surface whose maximum does not allow one image more than
\* the minimum: the count is the maximum
C20_Witness ==
    /\ sw_op = "recreate"
    /\ capabilities.maxImageCount > 0
    /\ capabilities.minImageCount + 1 > capabilities.maxImageCount
    /\ swapchain.image_count = capabilities.maxImageCount
    /\ swapchain.swapchain # VK_NULL_HANDLE

\* ------------------------------------------------------------------------
\* Properties of initialization (specification SpecBoot)
\* ------------------------------------------------------------------------
Attempted(fn) == \E i \in 1..Len(boot_trace) : boot_trace[i].fn = fn

\* the step fn was attempted and failed, and no step was attempted after it
FailedLast(fn) ==
    /\ Len(boot_trace) >= 1
    /\ boot_trace[Len(boot_trace)] = Step(fn, FALSE)

Failed(fn) == \E i \in 1..Len(boot_trace) : boot_trace[i] = Step(fn, FALSE)

ReturnedFailure == boot_pc = "returned" /\ boot_ret = "FALSE"

\* C13: in a diagnostic build, when a required validation layer is not in
\* the enumerated list of available layers (the empty list included),
\* initialization returns failure before the instance is created, before
\* the surface is created and before any accelerator is probed.
C13_MissingLayerIsFatal ==
    (debug_build /\ boot_pc # "start" /\ ~(RequiredLayers \subseteq layers_seen)) =>
        /\ ReturnedFailure
        /\ ~Attempted("vkCreateInstance")
        /\ ~Attempted("platform_create_vulkan_surface")
        /\ ~Attempted("vulkan_device_create")
        /\ ~vk_instance /\ ~vk_surface
        /\ ~sel_done /\ device = ZeroDevice

\* a diagnostic build found an empty list of layers and returned
C13_Witness ==
    /\ debug_build
    /\ available_layers = {}
    /\ layers_seen = {}
    /\ StepNames(boot_trace) = <<"vkEnumerateInstanceLayerProperties">>
    /\ boot_trace[1].ok
    /\ ReturnedFailure

\* C14: when the driver call that creates the instance fails,
\* initialization aborts and returns failure: surface creation, device
\* selection, swapchain creation, render-pass creation and command-buffer
\* allocation are not attempted.
C14_InstanceFailureAborts ==
    Failed("vkCreateInstance") =>
        /\ FailedLast("vkCreateInstance")
        /\ boot_pc = "returned" => boot_ret = "FALSE"

\* C15: when the driver call that creates the swapchain fails,
\* initialization aborts and returns failure: render-pass creation and
\* command-buffer allocation are not attempted, and initialization never
\* returns success while the swapchain handle is null.
C15_SwapchainFailureAborts ==
    /\ Failed("vulkan_swapchain_create") =>
          /\ FailedLast("vulkan_swapchain_create")
          /\ boot_pc = "returned" => boot_ret = "FALSE"
    /\ (boot_pc = "returned" /\ boot_ret = "TRUE")
          => swapchain.swapchain # VK_NULL_HANDLE
\* ------------------------------------------------------------------------
\* Properties of image acquisition (specification SpecAcquire)
\* ------------------------------------------------------------------------
\* C21: Recreate(w, h) followed by AcquireNextImage succeeds and returns an
\* image index in [0, image_count), for every w and h and every swapchain
\* state in which Recreate is called.
C21_AcquireAfterRecreateSucceeds ==
    (sw_op = "acquire" /\ acquire.after = "recreate") =>
        /\ acquire.ret
        /\ context.image_index >= 0
        /\ context.image_index < swapchain.image_count
\* ------------------------------------------------------------------------
\* Properties of the logical device builder (specification SpecDevice)
\* ------------------------------------------------------------------------
\* 0-based indices of the queue families of the accelerator the device holds
SelectedFamilies ==
    IF device.physical_device = VK_NULL_HANDLE THEN {}
    ELSE 0..(Len(physical_devices[device.physical_device].families) - 1)

QueueIndices ==
    {device.graphics_queue_index, device.present_queue_index,
     device.transfer_queue_index}

\* C24: in every state between a successful device creation and device
\* teardown, the graphics, present and transfer queue indices are not all
\* "not found", and each of the three is a family index of the selected
\* accelerator.
C24_QueueIndicesFound ==
    device.logical_device =>
        /\ QueueIndices # {NotFound}
        /\ QueueIndices \subseteq SelectedFamilies

\* a created device on the second accelerator of the enumeration, whose
\* transfer family is not its graphics family
C24_Witness ==
    /\ device.logical_device
    /\ ctx_op = "vulkan_device_detect_depth_format"
    /\ device.physical_device = 2
    /\ device.graphics_queue_index = 0
    /\ device.transfer_queue_index = 1

DeviceOps ==
    {"vulkan_device_create", "vulkan_device_destroy",
     "vulkan_device_detect_depth_format"}

\* C25 as stated: once an accelerator has been selected, every later
\* operation, device teardown included, leaves the stored physical handle
\* unchanged.
C25_PhysicalHandleNeverMutated ==
    (ctx_op \in DeviceOps /\ pre_device.physical_device # VK_NULL_HANDLE) =>
        device.physical_device = pre_device.physical_device

\* C25 amended: once an accelerator has been selected, device teardown
\* resets the stored physical handle to null, and every other operation
\* leaves it unchanged.
C25_PhysicalHandleAmended ==
    (ctx_op \in DeviceOps /\ pre_device.physical_device # VK_NULL_HANDLE) =>
        device.physical_device =
            IF ctx_op = "vulkan_device_destroy" THEN VK_NULL_HANDLE
            ELSE pre_device.physical_device

\* a created device on the second accelerator was torn down
C25_Witness ==
    /\ ctx_op = "vulkan_device_destroy"
    /\ pre_device.logical_device
    /\ pre_device.physical_device = 2
    /\ device.physical_device = VK_NULL_HANDLE

\* C27: the queue-create list handed to the driver holds every distinct
\* family index among graphics, present and transfer exactly once, no index
\* twice (also when present and transfer are one family that is not the
\* graphics family), and asks for exactly one queue in each entry.
C27_QueueCreateListDistinct ==
    (ctx_op = "vulkan_device_create" /\ sel_ret) =>
        /\ {queue_create_infos[i].queueFamilyIndex :
                i \in 1..Len(queue_create_infos)} = QueueIndices
        /\ Len(queue_create_infos) = Cardinality(QueueIndices)
        /\ \A i \in 1..Len(queue_create_infos) :
               queue_create_infos[i].queueCount = 1

\* the device holds no logical device, no queue and no support list, and
\* its queue indices are "not found"
TornDown(dev) ==
    /\ ~dev.logical_device
    /\ dev.graphics_queue = VK_NULL_HANDLE
    /\ dev.present_queue = VK_NULL_HANDLE
    /\ dev.transfer_queue = VK_NULL_HANDLE
    /\ ~dev.swapchain_support.formats
    /\ ~dev.swapchain_support.present_modes
    /\ dev.swapchain_support.format_count = 0
    /\ dev.swapchain_support.present_mode_count = 0
    /\ dev.graphics_queue_index = NotFound
    /\ dev.present_queue_index = NotFound
    /\ dev.transfer_queue_index = NotFound

\* the last operation made the call c
Released(c) == \E i \in 1..Len(ctx_calls) : ctx_calls[i] = c

\* C30: after device teardown the logical-device handle and the three queue
\* handles are null, both support lists are freed with null pointers and
\* zero counts, and the three queue indices are "not found"; a second
\* teardown releases nothing further and leaves that state unchanged.
C30_TeardownClearsDevice ==
    ctx_op = "vulkan_device_destroy" =>
        /\ TornDown(device)
        /\ pre_device.logical_device <=> Released("vkDestroyDevice")
        /\ pre_device.swapchain_support.formats <=> Released("kfree formats")
        /\ pre_device.swapchain_support.present_modes
               <=> Released("kfree present_modes")
        /\ ctx_prev = "vulkan_device_destroy" =>
               (ctx_calls = <<>> /\ device = pre_device)

\* a created device that held both lists was torn down, and torn down again
C30_Witness ==
    /\ ctx_op = "vulkan_device_destroy"
    /\ ctx_prev = "vulkan_device_destroy"
    /\ sel_ret
    /\ queue_create_infos # <<>>
    /\ TornDown(device)
    /\ ctx_calls = <<>>

\* ------------------------------------------------------------------------
\* The support lists across probes (specification SpecSelect)
\* ------------------------------------------------------------------------
\* C29: when swapchain support is queried into a support info that already
\* holds a formats list or a present-modes list, as when the selector probes
\* a further candidate, the lists held are freed before the fields are
\* overwritten: no list is cut loose.
C29_HeldListsFreedOnRequery ==
    sel_done => leaked = 0

\* ------------------------------------------------------------------------
\* The source of the extent (specification SpecSwapchain)
\* ------------------------------------------------------------------------
\* the surface reports a size of its own
CurrentExtentDefined == capabilities.currentExtent.width # UINT32_MAX

\* C28: Create uses the surface's current extent whenever it is defined
\* (its width is not 0xFFFFFFFF) and the requested width and height are
\* ignored; only when it is undefined is the request clamped into
\* [minImageExtent, maxImageExtent].
C28_CurrentExtentWhenDefined ==
    CreateRan =>
        /\ CurrentExtentDefined => swapchain.extent = capabilities.currentExtent
        /\ ~CurrentExtentDefined =>
               /\ swapchain.extent = RequestWithinLimits
               /\ swapchain.extent # capabilities.currentExtent

\* on a surface with a size of its own, a request within the limits and
\* different from that size in both components was ignored
C28_Witness ==
    /\ sw_op = "create"
    /\ CurrentExtentDefined
    /\ Within(sw_req, capabilities.minImageExtent, capabilities.maxImageExtent)
    /\ sw_req.width # capabilities.currentExtent.width
    /\ sw_req.height # capabilities.currentExtent.height
    /\ swapchain.extent = capabilities.currentExtent
    /\ swapchain.extent # sw_req

\* ------------------------------------------------------------------------
\* Properties of the clock (specification SpecClock)
\* ------------------------------------------------------------------------
\* C26: clock_update sets elapsed to the current absolute time less
\* start_time for every clock that has been started and not stopped, and
\* has no effect on a clock that was never started or has been stopped.
C26_UpdateMeasuresRunningClock ==
    clock_op = "clock_update" =>
        IF clock_running
        THEN /\ clock.elapsed = now - clock.start_time
             /\ clock.start_time = clock_pre.start_time
        ELSE clock = clock_pre

\* what does hold: the update of a clock whose start_time is not 0
C26_UpdateOfNonZeroStart ==
    clock_op = "clock_update" =>
        IF clock_pre.start_time # 0
        THEN clock = [clock_pre EXCEPT !.elapsed = now - clock_pre.start_time]
        ELSE clock = clock_pre

\* a clock started at the origin of the platform's time, updated later
C26_StartedAtOrigin ==
    /\ clock_op = "clock_update"
    /\ clock_running
    /\ clock.start_time = 0
    /\ now > 0
    /\ clock.elapsed = 0

\* ------------------------------------------------------------------------
\* Properties of the backend's lifetime (specification SpecBackend)
\* ------------------------------------------------------------------------
\* the size the context holds
FramebufferSize ==
    [width |-> context.framebuffer_width, height |-> context.framebuffer_height]

\* C22: after a resize notification has set the new framebuffer size and
\* the "recreating swapchain" flag, the swapchain is rebuilt with the new
\* dimensions before the next frame begins, and the flag is then cleared:
\* once a frame has begun the flag is clear and the swapchain was last built
\* for the size the context holds.
C22_ResizeRebuildsBeforeNextFrame ==
    ctx_op = "begin_frame" =>
        /\ ~context.recreating_swapchain
        /\ sw_req = FramebufferSize

\* the other half of C22, which holds: the notification itself never
\* destroys or rebuilds the swapchain
C22_NotificationKeepsSwapchain ==
    [][vulkan_renderer_backend_on_resized =>
           UNCHANGED <<swapchain, vk_swapchains, sw_op, sw_req>>]_vars

\* a frame begun after a notification of a size other than the one the
\* swapchain was built for
C22_FrameAfterResize ==
    /\ ctx_op = "begin_frame"
    /\ ctx_prev = "on_resized"
    /\ context.recreating_swapchain
    /\ sw_op = "create"
    /\ sw_req # FramebufferSize

\* the creation step whose resource a call of shutdown destroys
Creator(call) ==
    CASE call = "vulkan_renderpass_destroy" -> "vulkan_renderpass_create"
      [] call = "vulkan_swapchain_destroy" -> "vulkan_swapchain_create"
      [] call = "vulkan_device_destroy" -> "vulkan_device_create"
      [] call = "vkDestroySurfaceKHR" -> "platform_create_vulkan_surface"
      [] call = "vkDestroyDebugUtilsMessengerEXT" -> "vkCreateDebugUtilsMessengerEXT"
      [] call = "vkDestroyInstance" -> "vkCreateInstance"

\* the places of a name in a sequence of names
Places(names, n) == {i \in 1..Len(names) : names[i] = n}

\* call a comes before call b in the calls of shutdown
DestroyedBefore(a, b) ==
    \E i \in Places(ctx_calls, a), j \in Places(ctx_calls, b) : i < j

ShutdownRan == boot_pc = "shutdown"

\* C23: shutdown tears down in the reverse of the creation order: render
\* pass, swapchain, logical device, surface, debug-message handle, instance;
\* the debug-message handle is destroyed before the instance and nothing is
\* destroyed after the instance.
C23_ShutdownReversesCreation ==
    ShutdownRan =>
        /\ \A i \in 1..Len(ctx_calls), j \in 1..Len(ctx_calls) :
               i < j =>
                   \E k \in Places(StepNames(boot_trace), Creator(ctx_calls[j])),
                      l \in Places(StepNames(boot_trace), Creator(ctx_calls[i])) :
                       k < l
        /\ SubSeq(ctx_calls, 1, 3) =
               <<"vulkan_renderpass_destroy", "vulkan_swapchain_destroy",
                 "vulkan_device_destroy">>
        /\ DestroyedBefore("vulkan_device_destroy", "vkDestroySurfaceKHR")
        /\ Places(ctx_calls, "vkDestroyDebugUtilsMessengerEXT") # {}
               <=> context.debug_messenger
        /\ context.debug_messenger =>
               /\ DestroyedBefore("vkDestroySurfaceKHR",
                                  "vkDestroyDebugUtilsMessengerEXT")
               /\ DestroyedBefore("vkDestroyDebugUtilsMessengerEXT",
                                  "vkDestroyInstance")
        /\ Places(ctx_calls, "vkDestroyInstance") = {Len(ctx_calls)}
        /\ ~vk_instance /\ ~vk_surface /\ ~device.logical_device
        /\ swapchain.swapchain = VK_NULL_HANDLE

\* a diagnostic build with a messenger was shut down: all six calls
C23_Witness ==
    /\ ShutdownRan
    /\ debug_build
    /\ context.debug_messenger
    /\ Len(ctx_calls) = 6
    /\ ctx_calls[5] = "vkDestroyDebugUtilsMessengerEXT"
    /\ ctx_calls[6] = "vkDestroyInstance"

\* ------------------------------------------------------------------------
\* The state tag and the handle of a command buffer (specification Spec)
\* ------------------------------------------------------------------------
\* C35: in every state a command buffer is left in by an operation, its
\* state tag is NOT_ALLOCATED if and only if its driver handle is null.
C35_NotAllocatedIffNullHandle ==
    last_op # "none" =>
        (cb_state = COMMAND_BUFFER_STATE_NOT_ALLOCATED
             <=> cb_handle = VK_NULL_HANDLE)

\* a buffer the driver has just allocated: live handle, tagged NOT_ALLOCATED
C35_AllocatedYetNotAllocated ==
    /\ last_op = "allocate"
    /\ cb_handle # VK_NULL_HANDLE
    /\ cb_handle \in pool
    /\ cb_state = COMMAND_BUFFER_STATE_NOT_ALLOCATED

\* the places of the calls of a function in the calls of the last operation
CallsOf(fn) == {i \in 1..Len(calls) : calls[i].fn = fn}

\* C36: in the single-use end-and-free, the handle passed to the submit is
\* live at the moment of the submit: it was not freed or nulled before the
\* submit, and it is not freed before the queue-wait-idle has returned.
C36_SubmittedHandleIsLive ==
    (last_op = "end_and_free_single_use" /\ pre_handle # VK_NULL_HANDLE) =>
        /\ \A s \in CallsOf("vkQueueSubmit") : calls[s].h = pre_handle
        /\ \A f \in CallsOf("command_buffer_free") :
               \E w \in CallsOf("vkQueueWaitIdle") : w < f

\* a live buffer went through the single-use end-and-free: it was freed
\* second, and the submit that came third was handed a null handle
C36_FreedBeforeSubmit ==
    /\ last_op = "end_and_free_single_use"
    /\ pre_handle # VK_NULL_HANDLE
    /\ calls[2] = Call("command_buffer_free", pre_handle, TRUE)
    /\ calls[3].fn = "vkQueueSubmit"
    /\ calls[3].h = VK_NULL_HANDLE
    /\ pre_handle \notin pool

\* ------------------------------------------------------------------------
\* What a probe leaves allocated, and the family it reports for graphics
\* and for present (specification SpecProbe)
\* ------------------------------------------------------------------------
\* C37: whenever the prober rejects a candidate, for any reason and at any
\* step, every allocation made during that probe (the queue-family array,
\* the extension array, the formats and present-mode lists) has been
\* released by the time the probe returns.
C37_RejectionReleasesEverything ==
    (p_done /\ ~p_res.pass) => p_res.held = {}

\* a candidate with every required family and both lists, rejected for its
\* extensions or its anisotropic sampling: the family array and both lists
\* are still allocated
C37_RejectedHoldingLists ==
    /\ p_done /\ ~p_res.pass
    /\ p_res.q.graphics # NotFound
    /\ p_res.support.format_count > 0
    /\ p_res.support.present_mode_count > 0
    /\ p_res.held = {"queue_families", "formats", "present_modes"}

\* the families that have the graphics bit and present to the surface
GraphicsAndPresent == FamiliesWith(VK_QUEUE_GRAPHICS_BIT) \cap PresentingFamilies

\* C38: if some queue family of the accelerator supports both graphics and
\* present, the prober reports the same family index for graphics and for
\* present.
C38_GraphicsAndPresentAlias ==
    (p_done /\ p_res.pass /\ p_req.present /\ p_surface
         /\ GraphicsAndPresent # {}) =>
        p_res.q.graphics = p_res.q.present

\* family 0 has graphics and presents, family 1 presents without graphics:
\* graphics is reported as 0 and present as 1
C38_PresentTakenFromLaterFamily ==
    /\ p_done /\ p_res.pass
    /\ p_req.present /\ p_surface
    /\ 0 \in GraphicsAndPresent
    /\ p_res.q.graphics = 0
    /\ p_res.q.present = 1

\* ------------------------------------------------------------------------
\* Teardown and rebuild of the swapchain (specification SpecTeardown)
\* ------------------------------------------------------------------------
\* the places of the calls of a function in the calls of the last operation
\* of the swapchain manager
SwapchainCallsOf(fn) == {i \in 1..Len(sw_calls) : sw_calls[i].fn = fn}

\* every call of function a comes before every call of function b
AllBefore(a, b) ==
    \A i \in SwapchainCallsOf(a), j \in SwapchainCallsOf(b) : i < j

\* what the last operation found is released: each view and then the view
\* array, the handle, the image array, in this order, and nothing else
ReleasedInOrder ==
    /\ Cardinality(SwapchainCallsOf("vkDestroyImageView")) = sw_pre.view_count
    /\ Cardinality(SwapchainCallsOf("darray_free image_views"))
           = IF sw_pre.image_views THEN 1 ELSE 0
    /\ Cardinality(SwapchainCallsOf("vkDestroySwapchainKHR"))
           = IF sw_pre.swapchain THEN 1 ELSE 0
    /\ Cardinality(SwapchainCallsOf("darray_free images"))
           = IF sw_pre.images THEN 1 ELSE 0
    /\ AllBefore("vkDestroyImageView", "darray_free image_views")
    /\ AllBefore("darray_free image_views", "vkDestroySwapchainKHR")
    /\ AllBefore("vkDestroyImageView", "vkDestroySwapchainKHR")
    /\ AllBefore("vkDestroySwapchainKHR", "darray_free images")
    /\ AllBefore("darray_free image_views", "darray_free images")

\* C31: Destroy releases every image view, then the swapchain handle, then
\* the image-handle list; individual image handles are never freed;
\* afterwards the handle and both list pointers are null, and a second
\* Destroy releases nothing.
C31_DestroyOrder ==
    sw_op = "destroy" =>
        /\ ReleasedInOrder
        /\ \A i \in 1..Len(sw_calls) :
               sw_calls[i].fn \in {"vkDestroyImageView", "darray_free image_views",
                                   "vkDestroySwapchainKHR", "darray_free images"}
        /\ swapchain.swapchain = VK_NULL_HANDLE
        /\ ~swapchain.images /\ ~swapchain.image_views
        /\ vk_swapchains = {}
        /\ destroy_calls(swapchain) = <<>>
        /\ (~sw_pre.swapchain /\ ~sw_pre.images /\ ~sw_pre.image_views)
               => sw_calls = <<>>

\* a swapchain with a handle, an image array and an array of two views or
\* more was destroyed
C31_Witness ==
    /\ sw_op = "destroy"
    /\ sw_pre.swapchain /\ sw_pre.images /\ sw_pre.image_views
    /\ sw_pre.view_count >= 2
    /\ Len(sw_calls) = sw_pre.view_count + 3
    /\ sw_calls[Len(sw_calls)].fn = "darray_free images"

\* C32: Recreate(w, h) is a full rebuild: the old handle and its image views
\* are destroyed before the new swapchain is created, the new one is created
\* with no prior swapchain, and the format, extent and image count are those
\* Create(w, h) produces from the same surface capabilities.
C32_RecreateIsFullRebuild ==
    sw_op = "recreate" =>
        LET made == create(ZeroSwapchain, {}, sw_req.width, sw_req.height, TRUE).sc
        IN  /\ ReleasedInOrder
            /\ SwapchainCallsOf("vkCreateSwapchainKHR") = {Len(sw_calls)}
            /\ sw_calls[Len(sw_calls)].arg = VK_NULL_HANDLE
            /\ swapchain.image_format = made.image_format
            /\ swapchain.extent = made.extent
            /\ swapchain.image_count = made.image_count
            /\ ~swapchain.images /\ ~swapchain.image_views
            /\ Cardinality(vk_swapchains) <= 1
            /\ swapchain.swapchain # VK_NULL_HANDLE
                   => vk_swapchains = {swapchain.swapchain}

\* a swapchain with a handle and views was rebuilt for a size that had to be
\* clamped: the views and the old handle went first, the creation last, and
\* the driver holds the new swapchain only
C32_Witness ==
    /\ sw_op = "recreate"
    /\ sw_pre.swapchain /\ sw_pre.image_views /\ sw_pre.view_count >= 1
    /\ sw_calls[1].fn = "vkDestroyImageView"
    /\ sw_calls[Len(sw_calls)].fn = "vkCreateSwapchainKHR"
    /\ swapchain.swapchain # VK_NULL_HANDLE
    /\ sw_req.width > capabilities.maxImageExtent.width
    /\ swapchain.extent.width = capabilities.maxImageExtent.width

\* ------------------------------------------------------------------------
\* The arrays of a created swapchain (specification SpecSwapchain)
\* ------------------------------------------------------------------------
\* C33: after a successful Create the swapchain holds one image handle and
\* one image-view handle per image: the image list and the image-view list
\* each have exactly image_count entries.
C33_OneImageAndViewPerImage ==
    (sw_op = "create" /\ swapchain.swapchain # VK_NULL_HANDLE) =>
        /\ swapchain.images
        /\ swapchain.image_views
        /\ Held(swapchain).view_count = swapchain.image_count

\* a first Create that the driver accepted: a handle and an image count, and
\* neither array
C33_CreatedWithoutArrays ==
    /\ sw_op = "create"
    /\ ~sw_pre.swapchain
    /\ swapchain.swapchain # VK_NULL_HANDLE
    /\ swapchain.image_count >= 1
    /\ ~swapchain.images /\ ~swapchain.image_views

\* the handles held by the buffers of context.graphics_command_buffers
BufferHandles ==
    {graphics_command_buffers[i].handle : i \in DOMAIN graphics_command_buffers}
        \ {VK_NULL_HANDLE}

\* C34: after command-buffer creation during initialization the context owns
\* exactly one command buffer per swapchain image, each with a live handle
\* of its own.
C34_OneLiveBufferPerImage ==
    Attempted("create_command_buffers") =>
        /\ Len(graphics_command_buffers) = swapchain.image_count
        /\ \A i \in DOMAIN graphics_command_buffers :
               graphics_command_buffers[i].handle \in pool
        /\ Cardinality(BufferHandles) = swapchain.image_count

\* initialization returned TRUE with a buffer of the array holding no handle
C34_ReturnedWithNullBuffer ==
    /\ Running
    /\ Len(graphics_command_buffers) = swapchain.image_count
    /\ \E i \in DOMAIN graphics_command_buffers :
           graphics_command_buffers[i].handle = VK_NULL_HANDLE

\* C39: every command buffer is allocated from a graphics command pool that
\* was created on the device before the allocation: when the buffers are
\* allocated in initialization, the pool of the device is a created pool and
\* its creation is a step that came before.
C39_PoolCreatedBeforeAllocation ==
    Attempted("create_command_buffers") =>
        /\ device.graphics_command_pool # VK_NULL_HANDLE
        /\ \E k \in Places(StepNames(boot_trace), "vkCreateCommandPool"),
              l \in Places(StepNames(boot_trace), "create_command_buffers") :
               k < l

\* a buffer of the array holds a handle while the pool of the device is null
C39_AllocatedFromNullPool ==
    /\ BufferHandles # {}
    /\ device.graphics_command_pool = VK_NULL_HANDLE

\* C40: during shutdown every command buffer allocated in initialization is
\* freed before the logical device is destroyed: once shutdown ran, no
\* buffer of the array holds a handle and the driver has none allocated.
C40_BuffersFreedBeforeDevice ==
    ShutdownRan =>
        /\ BufferHandles = {}
        /\ pool = {}

\* shutdown destroyed the device while buffers of the array hold handles
C40_DeviceDestroyedWithBuffers ==
    /\ ShutdownRan
    /\ Places(ctx_calls, "vulkan_device_destroy") # {}
    /\ Places(ctx_calls, "vkFreeCommandBuffers") = {}
    /\ BufferHandles # {}
    /\ BufferHandles \subseteq pool

====
